---- MODULE Spec2Model ----
(***************************************************************************)
(* A state-machine model of the bitcask-rs storage engine: the append-only *)
(* data files, the keydir, the write batch, merge and the startup          *)
(* recovery (merge swap, hint file, log replay).                           *)
(*                                                                         *)
(* Keys and values are byte strings (sequences of numbers).  A file is the *)
(* sequence of the log records appended to it; byte offsets and lengths    *)
(* are computed from the records' encoded lengths, so that positions,      *)
(* write offsets, rollover and the header read of the decoder are those of *)
(* the code.  The bytes themselves are not modelled: a read at an offset   *)
(* that is not the start of a record decodes garbage, which is the single  *)
(* error value InvalidLogRecordCrc here.                                   *)
(***************************************************************************)
EXTENDS Integers, Sequences, FiniteSets, TLC

VARIABLES
    options,        \* Options of the engine: index_type, mmap_at_startup,
                    \* sync_writes, bytes_per_sync
    dir_path,       \* the data directory: [exists, data, side, unsynced]
    merge_path,     \* the sibling merge directory, of the same shape
    status,         \* "closed" | "opening" | "open": the engine instance
    active_file,    \* Engine.active_file: [file_id, write_off, io], and
                    \* Engine.bytes_write
    older_files,    \* Engine.older_files: the ids of the older data files
    index,          \* Engine.index: key -> LogRecordPos (the keydir)
    seq_no,         \* Engine.seq_no
    reclaim_size,   \* Engine.reclaim_size
    pending_writes, \* WriteBatch.prending_writes: key -> [rec_type, value]
    put_pc,         \* a put/delete between its append and its index update
    commit_pc,      \* a WriteBatch.commit in flight
    merge_pc,       \* a merge in flight
    open_pc,        \* an open inside load_merge_files
    caller,         \* the workload: [caller, keys, values, records, opens]
    iter,           \* the Iterator of the caller: [items, curr_index, options]
    is_initial,     \* Engine.is_initial
    seq_file_exists,\* Engine.seq_file_exists
    last_op,        \* observer: the API call that returned last
    hist            \* observer: snapshots the claims compare against

vars == <<options, dir_path, merge_path, status, active_file, older_files,
          index, seq_no, reclaim_size, pending_writes, put_pc, commit_pc,
          merge_pc, open_pc, caller, iter, is_initial, seq_file_exists,
          last_op, hist>>

(***************************************************************************)
(* Bounds of the model.                                                    *)
(***************************************************************************)
\* the keys the callers use: "a" and "b"
Keys == {<<97>>, <<98>>}
\* the values the callers use: the empty value and "vv"
Values == {<<>>, <<118, 118>>}
\* Options.data_file_size of the modelled engine, in bytes
DataFileSize == 24
\* the callers stop appending once the data directory holds this many records
MaxRecords == 3
\* the engine is closed at most this many times before the seq-no file,
\* which every close appends to, is read and removed
MaxCloses == 2
\* merge rotates the active file only while its id is below this
MaxFileId == 2
\* Engine::open is called at most this many times
MaxOpens == 3
\* Options.bytes_per_sync of the engines that sync by bytes written
BytesPerSync == 20
\* WriteBatchOptions.max_batch_num of the batches of the callers
MaxBatchNum == 2

(***************************************************************************)
(* Record codec (data/log_record.rs, batch.rs).                            *)
(***************************************************************************)
NON_TXN_SEQ_NO == 0
\* "txn-fin"
TXN_FIN_KEY == <<116, 120, 110, 45, 102, 105, 110>>
\* "seq.no"
SEQ_NO_KEY == <<115, 101, 113, 46, 110, 111>>
\* "merge.finished"
MERGE_FIN_KEY == <<109, 101, 114, 103, 101, 46, 102, 105, 110, 105, 115, 104, 101, 100>>

HINT_FILE_NAME == "hint-index"
MERGE_FINISHED_FILE_NAME == "merge-finished"
SEQ_NO_FILE_NAME == "seq-no"
FILE_LOCK_NAME == "flock"

\* prost::length_delimiter_len: the length of the varint of n
LengthDelimiterLen(n) ==
    IF n < 128 THEN 1
    ELSE IF n < 16384 THEN 2
    ELSE IF n < 2097152 THEN 3
    ELSE IF n < 268435456 THEN 4
    ELSE 5

\* prost::encode_length_delimiter: the varint of n, low groups first
RECURSIVE EncodeLengthDelimiter(_)
EncodeLengthDelimiter(n) ==
    IF n < 128 THEN <<n>>
    ELSE <<128 + (n % 128)>> \o EncodeLengthDelimiter(n \div 128)

\* prost::decode_length_delimiter: [value, rest] of the varint heading buf
RECURSIVE DecodeLengthDelimiter(_)
DecodeLengthDelimiter(buf) ==
    IF Head(buf) < 128 THEN [value |-> Head(buf), rest |-> Tail(buf)]
    ELSE LET more == DecodeLengthDelimiter(Tail(buf))
         IN  [value |-> (Head(buf) - 128) + 128 * more.value, rest |-> more.rest]

\* batch.rs log_record_key_with_seq: varint(seq_no) || key
log_record_key_with_seq(key, seq) == EncodeLengthDelimiter(seq) \o key

\* batch.rs parse_log_record_key: (real key, seq_no) of an on-disk key
parse_log_record_key(key) ==
    LET d == DecodeLengthDelimiter(key)
    IN  [key |-> d.rest, seq_no |-> d.value]

\* LogRecord::encoded_length: type + two varints + key + value + crc
encoded_length(rec) ==
    1 + LengthDelimiterLen(Len(rec.key)) + LengthDelimiterLen(Len(rec.value))
      + Len(rec.key) + Len(rec.value) + 4

\* a record; in a file, written is the number of its encoded bytes that
\* reached the file: all of them unless the process died inside the write
LogRecord(key, value, rec_type) ==
    [key |-> key, value |-> value, rec_type |-> rec_type,
     written |-> encoded_length([key |-> key, value |-> value])]

\* LogRecord::encode up to the key: LogRecordType as u8, varint(key_size),
\* varint(value_size)
EncodeHeader(rec) ==
    <<CASE rec.rec_type = "NOAMAL" -> 1
        [] rec.rec_type = "DELETED" -> 2
        [] rec.rec_type = "TXNFINISHED" -> 3>>
        \o EncodeLengthDelimiter(Len(rec.key))
        \o EncodeLengthDelimiter(Len(rec.value))

\* log_record.rs max_log_record_header_size.  u32::MAX is stood for by
\* 2^31 - 1, the largest number of the checker: the varint of every number
\* from 2^28 to 2^35 - 1 has the same five bytes
max_log_record_header_size == 1 + LengthDelimiterLen(2147483647) * 2

\* usize::to_string as bytes: the decimal digits of n
RECURSIVE NumberToString(_)
NumberToString(n) ==
    IF n < 10 THEN <<48 + n>> ELSE NumberToString(n \div 10) \o <<48 + (n % 10)>>

\* str::parse of a decimal number
RECURSIVE ParseNumber(_)
ParseNumber(s) ==
    IF Len(s) = 1 THEN s[1] - 48
    ELSE 10 * ParseNumber(SubSeq(s, 1, Len(s) - 1)) + (s[Len(s)] - 48)

LogRecordPos(file_id, offset, size) ==
    [file_id |-> file_id, offset |-> offset, size |-> size]

\* LogRecordPos::encode: the three varints file_id, offset, size
EncodePos(pos) ==
    EncodeLengthDelimiter(pos.file_id) \o EncodeLengthDelimiter(pos.offset)
        \o EncodeLengthDelimiter(pos.size)

\* decode_log_record_pos
decode_log_record_pos(buf) ==
    LET f == DecodeLengthDelimiter(buf)
        o == DecodeLengthDelimiter(f.rest)
        s == DecodeLengthDelimiter(o.rest)
    IN  LogRecordPos(f.value, o.value, s.value)

(***************************************************************************)
(* Files: a file is the sequence of the records appended to it.            *)
(***************************************************************************)
\* the byte length of a file
RECURSIVE FileSize(_)
FileSize(recs) ==
    IF recs = <<>> THEN 0 ELSE Head(recs).written + FileSize(Tail(recs))

\* the index of the record that starts at byte offset off, 0 if none does
RECURSIVE RecordAt(_, _, _)
RecordAt(recs, off, i) ==
    IF i > Len(recs) THEN 0
    ELSE IF off = 0 THEN i
    ELSE IF off < recs[i].written THEN 0
    ELSE RecordAt(recs, off - recs[i].written, i + 1)

ReadOk(rec, size) == [err |-> "", record |-> rec, size |-> size]
ReadErr(e) == [err |-> e, record |-> LogRecord(<<>>, <<>>, "NOAMAL"), size |-> 0]

\* byte j, counted from 0 at the first byte of record i, of a file, for the
\* bytes DataFile::read decodes as a header; past the end of the file it is
\* the 0 of the zeroed buffer
RECURSIVE HeaderByte(_, _, _)
HeaderByte(recs, i, j) ==
    IF i > Len(recs) THEN 0
    ELSE IF j >= recs[i].written THEN HeaderByte(recs, i + 1, j - recs[i].written)
    ELSE EncodeHeader(recs[i])[j + 1]

\* DataFile::read at a record whose write was cut short: the sizes are
\* decoded from the bytes that follow the type byte (one byte each for the
\* lengths of the model), and the bytes read in place of the missing ones
\* do not complete the checksum
TornRead(recs, i, offset, io) ==
    LET key_size == HeaderByte(recs, i, 1)
        value_size == HeaderByte(recs, i, 2)
        header_size == LengthDelimiterLen(key_size) + LengthDelimiterLen(value_size) + 1
    IN  IF key_size = 0 /\ value_size = 0 THEN ReadErr("ReadDataFileEOF")
        ELSE IF io = "MMapIO"
                /\ offset + header_size + key_size + value_size + 4 > FileSize(recs)
             THEN ReadErr("ReadDataFileEOF")
        ELSE ReadErr("InvalidLogRecordCrc")

\* DataFile::read over FileIO (a short read at the end of the file is fine,
\* and past the end the zeroed header reads as key_size = value_size = 0) or
\* over MMapIO (a read that would pass the end of the map is ReadDataFileEOF)
DataFileRead(recs, offset, io) ==
    LET i == RecordAt(recs, offset, 1) IN
    IF io = "MMapIO" /\ offset + max_log_record_header_size > FileSize(recs)
    THEN ReadErr("ReadDataFileEOF")
    ELSE IF offset >= FileSize(recs) THEN ReadErr("ReadDataFileEOF")
    ELSE IF i = 0 THEN ReadErr("InvalidLogRecordCrc")
    ELSE IF recs[i].written < encoded_length(recs[i]) THEN TornRead(recs, i, offset, io)
    ELSE IF Len(recs[i].key) = 0 /\ Len(recs[i].value) = 0
         THEN ReadErr("ReadDataFileEOF")
    ELSE ReadOk(recs[i], encoded_length(recs[i]))

\* a directory: its data files by id, its other files by name, and for each
\* data file with bytes that no fsync has covered yet the number of them
EmptyDir == [exists |-> FALSE, data |-> <<>>, side |-> <<>>, unsynced |-> <<>>]
NewDir == [exists |-> TRUE, data |-> <<>>, side |-> <<>>, unsynced |-> <<>>]

\* f without the entries of the keys in s
Without(f, s) == [x \in DOMAIN f \ s |-> f[x]]

\* f with key k bound to v
With(f, k, v) == (k :> v) @@ f

\* OpenOptions create(true): an existing file keeps its content
Created(files, name) == IF name \in DOMAIN files THEN files ELSE With(files, name, <<>>)

\* the number of records in the data files of a directory
RECURSIVE CountRecords(_, _)
CountRecords(data, ids) ==
    IF ids = {} THEN 0
    ELSE LET f == CHOOSE x \in ids : TRUE
         IN  Len(data[f]) + CountRecords(data, ids \ {f})

\* the ids of a set in ascending order
RECURSIVE Sorted(_)
Sorted(ids) ==
    IF ids = {} THEN <<>>
    ELSE LET m == CHOOSE x \in ids : \A y \in ids : x <= y
         IN  <<m>> \o Sorted(ids \ {m})

(***************************************************************************)
(* The keydir (index/mod.rs Indexer, index/skiplist.rs): a map from key to *)
(* position.  The three variants differ only in that the B+-tree lives in  *)
(* a file of the data directory and so survives the engine.                *)
(***************************************************************************)
IndexPut(idx, key, pos) == With(idx, key, pos)
IndexDelete(idx, key) == Without(idx, {key})

\* Engine::update_index on [index, reclaim_size]
update_index(st, key, rec_type, pos) ==
    IF rec_type = "NOAMAL"
    THEN [st EXCEPT !.index = IndexPut(st.index, key, pos),
                    !.reclaim_size = IF key \in DOMAIN st.index
                                     THEN @ + st.index[key].size ELSE @]
    ELSE IF rec_type = "DELETED"
    THEN [st EXCEPT !.index = IndexDelete(st.index, key),
                    !.reclaim_size = IF key \in DOMAIN st.index
                                     THEN @ + pos.size + st.index[key].size
                                     ELSE @ + pos.size]
    ELSE st

\* an append whose rollover opens the next file and drops the file it leaves
\* instead of keeping it with the older files
append_dropping_retired_file(opts, dp, af, older, rec) ==
    LET record_len == encoded_length(rec)
        roll == af.write_off + record_len > DataFileSize
        fid == IF roll THEN af.file_id + 1 ELSE af.file_id
        data1 == IF roll THEN Created(dp.data, fid) ELSE dp.data
        write_off == IF roll THEN 0 ELSE af.write_off
    IN  [data |-> [data1 EXCEPT ![fid] = Append(@, rec)],
         unsynced |-> dp.unsynced,
         active_file |-> [file_id |-> fid, write_off |-> write_off + record_len,
                          io |-> af.io, bytes_write |-> af.bytes_write],
         older_files |-> older,
         pos |-> LogRecordPos(fid, write_off, record_len)]

(***************************************************************************)
(* Engine::append_log_record with the options opts on the directory dp and *)
(* the active file of an engine.  The file is opened for appending, so the *)
(* record lands at the end of the file whatever the cached write_off says; *)
(* the returned position carries the cached write_off.  A rollover syncs   *)
(* the file it leaves; the counter bytes_write, which the code updates     *)
(* under the lock of the active file, is kept with the active file.        *)
(***************************************************************************)
append_log_record(opts, dp, af, older, rec) ==
    LET record_len == encoded_length(rec)
        roll == af.write_off + record_len > DataFileSize
        fid == IF roll THEN af.file_id + 1 ELSE af.file_id
        data1 == IF roll THEN Created(dp.data, fid) ELSE dp.data
        write_off == IF roll THEN 0 ELSE af.write_off
        unsynced1 == IF roll THEN Without(dp.unsynced, {af.file_id}) ELSE dp.unsynced
        dirty == IF fid \in DOMAIN unsynced1 THEN unsynced1[fid] ELSE 0
        need_sync == \/ opts.sync_writes
                     \/ /\ opts.bytes_per_sync > 0
                        /\ af.bytes_write + record_len > opts.bytes_per_sync
    IN  [data |-> [data1 EXCEPT ![fid] = Append(@, rec)],
         unsynced |-> IF need_sync THEN Without(unsynced1, {fid})
                      ELSE With(unsynced1, fid, dirty + record_len),
         active_file |-> [file_id |-> fid, write_off |-> write_off + record_len,
                          io |-> af.io,
                          bytes_write |-> IF need_sync THEN 0
                                          ELSE af.bytes_write + record_len],
         older_files |-> IF roll THEN older \cup {af.file_id} ELSE older,
         pos |-> LogRecordPos(fid, write_off, record_len)]

Ok(value) == [err |-> "", value |-> value]
Err(e) == [err |-> e, value |-> <<>>]

\* Engine::get_value_by_position
get_value_by_position(data, af, older, pos) ==
    IF pos.file_id # af.file_id /\ pos.file_id \notin older
    THEN Err("DataFileIsNotFound")
    ELSE LET r == DataFileRead(data[pos.file_id], pos.offset, af.io) IN
         IF r.err # "" THEN Err(r.err)
         ELSE IF r.record.rec_type = "DELETED" THEN Err("KeyIsNotFound")
         ELSE Ok(r.record.value)

\* Engine::get on an engine e = [active_file, older_files, index, ...]
EngineGet(data, e, key) ==
    IF key = <<>> THEN Err("KeyIsEmpty")
    ELSE IF key \notin DOMAIN e.index THEN Err("KeyIsNotFound")
    ELSE get_value_by_position(data, e.active_file, e.older_files, e.index[key])

\* what an engine serves: list_keys() and get(k) for every key
EngineView(data, e) ==
    [keys |-> DOMAIN e.index, get |-> [k \in Keys |-> EngineGet(data, e, k)]]

\* the running engine
Engine ==
    [active_file |-> active_file, older_files |-> older_files, index |-> index,
     seq_no |-> seq_no, reclaim_size |-> reclaim_size]

Get(key) == EngineGet(dir_path.data, Engine, key)
ListKeys == DOMAIN index
View == EngineView(dir_path.data, Engine)
NoView == [keys |-> {}, get |-> <<>>]

(***************************************************************************)
(* The keydir iterator (index/skiplist.rs, index/bptree.rs) and the        *)
(* Iterator of the engine (iterator.rs).  An iterator copies the entries   *)
(* of the keydir when it is created; next() reads the value of an entry   *)
(* from the data files when it reaches it.                                 *)
(***************************************************************************)
\* IteratorOptions.prefix of the callers: none, "a" and "b"
Prefixes == {<<>>, <<97>>, <<98>>}
\* the keys the callers seek: "a", "aa", "ab", "b" and "c"
SeekKeys == {<<97>>, <<97, 97>>, <<97, 98>>, <<98>>, <<99>>}

\* Vec<u8>::cmp, the byte-lexicographic order
RECURSIVE cmp(_, _)
cmp(x, y) ==
    IF x = <<>> /\ y = <<>> THEN "Equal"
    ELSE IF x = <<>> THEN "Less"
    ELSE IF y = <<>> THEN "Greater"
    ELSE IF Head(x) < Head(y) THEN "Less"
    ELSE IF Head(x) > Head(y) THEN "Greater"
    ELSE cmp(Tail(x), Tail(y))

\* the entries of the keydir as SkipMap::iter and the cursor of the B+-tree
\* visit them: by ascending key
RECURSIVE Entries(_, _)
Entries(idx, keys) ==
    IF keys = {} THEN <<>>
    ELSE LET k == CHOOSE k \in keys : \A o \in keys : cmp(k, o) # "Greater"
         IN  <<[key |-> k, pos |-> idx[k]]>> \o Entries(idx, keys \ {k})

\* an iterator that always walks the keydir by ascending key
iterator_ascending(idx, opts) ==
    [items |-> Entries(idx, DOMAIN idx), curr_index |-> 0, options |-> opts]

\* Indexer::iterator; items.reverse() when options.reverse
iterator(idx, opts) ==
    LET items == Entries(idx, DOMAIN idx) IN
    [items |-> IF opts.reverse
               THEN [i \in 1..Len(items) |-> items[Len(items) + 1 - i]]
               ELSE items,
     curr_index |-> 0, options |-> opts]

\* IndexIterator::rewind
rewind(it) == [it EXCEPT !.curr_index = 0]

\* slice::binary_search_by over items[left..right] with the comparator of
\* seek; the index of the match, or the index where the key would go
RECURSIVE binary_search_by(_, _, _, _)
binary_search_by(it, key, left, right) ==
    IF left >= right THEN left
    ELSE LET mid == left + ((right - left) \div 2)
             c == cmp(it.items[mid + 1].key, key)
             ord == IF ~it.options.reverse THEN c
                    ELSE IF c = "Less" THEN "Greater"
                    ELSE IF c = "Greater" THEN "Less" ELSE "Equal"
         IN  IF ord = "Less" THEN binary_search_by(it, key, mid + 1, right)
             ELSE IF ord = "Greater" THEN binary_search_by(it, key, left, mid)
             ELSE mid

\* IndexIterator::seek
seek(it, key) ==
    [it EXCEPT !.curr_index = binary_search_by(it, key, 0, Len(it.items))]

\* IndexIterator::next: the iterator after the call and the item it
\* returns, <<>> for None
RECURSIVE next(_)
next(it) ==
    IF it.curr_index >= Len(it.items) THEN [iter |-> it, item |-> <<>>]
    ELSE LET item == it.items[it.curr_index + 1]
             it1 == [it EXCEPT !.curr_index = @ + 1]
             prefix == it.options.prefix
         IN  IF \/ prefix = <<>>
                \/ /\ Len(prefix) <= Len(item.key)
                   /\ SubSeq(item.key, 1, Len(prefix)) = prefix
             THEN [iter |-> it1, item |-> <<item>>]
             ELSE next(it1)

\* no iterator
NoIter == [items |-> <<>>, curr_index |-> 0,
           options |-> [prefix |-> <<>>, reverse |-> FALSE],
           live |-> FALSE, created |-> <<>>, from |-> <<>>, seen |-> <<>>,
           done |-> FALSE]

(***************************************************************************)
(* Startup, part 1: merge.rs load_merge_files, the swap of a finished      *)
(* merge into the data directory.                                          *)
(***************************************************************************)
\* the entries of the merge directory that the swap moves: everything but
\* seq-no, flock and the data files of length zero
MergeDataNames(mp) == {f \in DOMAIN mp.data : FileSize(mp.data[f]) # 0}
MergeSideNames(mp) == DOMAIN mp.side \ {SEQ_NO_FILE_NAME, FILE_LOCK_NAME}
MergeFinished(mp) == MERGE_FINISHED_FILE_NAME \in DOMAIN mp.side

\* the value of the one record of a merge-finished or seq-no file
MarkerRead(recs) == DataFileRead(recs, 0, "FileIO")

\* remove_file(get_data_file_path(dir_path, fid))
RemoveDataFile(dp, fid) ==
    [dp EXCEPT !.data = Without(@, {fid}), !.unsynced = Without(@, {fid})]

\* rename(merge_path/name, dir_path/name) of a data file and of another file
RenameData(dp, mp, fid) ==
    [dp EXCEPT !.data = With(@, fid, mp.data[fid]),
               !.unsynced = IF fid \in DOMAIN mp.unsynced
                            THEN With(@, fid, mp.unsynced[fid]) ELSE Without(@, {fid})]
RenameSide(dp, mp, name) == [dp EXCEPT !.side = With(@, name, mp.side[name])]

\* the data directory after remove_file of the ids lo .. hi-1, stopping at a
\* missing file (remove_file(..).unwrap() panics there)
RECURSIVE RemoveOldFiles(_, _, _)
RemoveOldFiles(dp, lo, hi) ==
    IF lo >= hi THEN [panic |-> FALSE, dir |-> dp]
    ELSE IF lo \notin DOMAIN dp.data THEN [panic |-> TRUE, dir |-> dp]
    ELSE RemoveOldFiles(RemoveDataFile(dp, lo), lo + 1, hi)

\* load_merge_files as a whole: [res, dir, merge], res "ok", "panic" or the
\* error it returns
load_merge_files(dp, mp) ==
    IF ~mp.exists THEN [res |-> "ok", dir |-> dp, merge |-> mp]
    ELSE IF ~MergeFinished(mp) THEN [res |-> "ok", dir |-> dp, merge |-> EmptyDir]
    ELSE LET fin == MarkerRead(mp.side[MERGE_FINISHED_FILE_NAME]) IN
         IF fin.err # "" THEN [res |-> fin.err, dir |-> dp, merge |-> mp]
         ELSE LET removed == RemoveOldFiles(dp, 0, ParseNumber(fin.record.value))
                  moved_data == [f \in MergeDataNames(mp) |-> mp.data[f]]
                  moved_side == [n \in MergeSideNames(mp) |-> mp.side[n]]
              IN  IF removed.panic
                  THEN [res |-> "panic", dir |-> removed.dir, merge |-> mp]
                  ELSE [res |-> "ok",
                        dir |-> [removed.dir EXCEPT !.data = moved_data @@ @,
                                                    !.side = moved_side @@ @],
                        merge |-> EmptyDir]

(***************************************************************************)
(* Startup, part 2: load_data_files, load_index_from_hint_file, load_index *)
(* and load_seq_no.                                                        *)
(***************************************************************************)
\* one iteration of the loop of load_index_from_hint_file and those after it
RECURSIVE HintLoop(_, _, _)
HintLoop(idx, recs, offset) ==
    LET r == DataFileRead(recs, offset, "FileIO") IN
    IF r.err # "" THEN idx
    ELSE HintLoop(IndexPut(idx, r.record.key, decode_log_record_pos(r.record.value)),
                  recs, offset + r.size)

load_index_from_hint_file(dp, idx) ==
    IF HINT_FILE_NAME \notin DOMAIN dp.side THEN idx
    ELSE HintLoop(idx, dp.side[HINT_FILE_NAME], 0)

\* the staged records of a batch, applied in the order they were staged
RECURSIVE ApplyBatch(_, _, _)
ApplyBatch(st, records, i) ==
    IF i > Len(records) THEN st
    ELSE ApplyBatch(update_index(st, records[i].key, records[i].rec_type,
                                 records[i].pos), records, i + 1)

\* the body of the loop of load_index for one decoded record; applied collects
\* the positions handed to update_index
ReplayRecord(st, rec, pos) ==
    LET parsed == parse_log_record_key(rec.key)
        seq == parsed.seq_no
        st1 == [st EXCEPT !.seq_no = IF seq + 1 > @ THEN seq + 1 ELSE @]
    IN  IF seq = NON_TXN_SEQ_NO
        THEN [update_index(st1, parsed.key, rec.rec_type, pos)
                 EXCEPT !.applied = @ \cup {pos}]
        ELSE IF rec.rec_type = "TXNFINISHED"
        THEN IF seq \notin DOMAIN st1.txn_batch
             THEN [st1 EXCEPT !.res = "panic"]
             ELSE LET records == st1.txn_batch[seq] IN
                  [ApplyBatch(st1, records, 1)
                      EXCEPT !.txn_batch = Without(@, {seq}),
                             !.applied = @ \cup {records[i].pos : i \in DOMAIN records}]
        ELSE LET staged == [key |-> parsed.key, rec_type |-> rec.rec_type, pos |-> pos]
             IN  [st1 EXCEPT !.txn_batch =
                     IF seq \in DOMAIN @ THEN [@ EXCEPT ![seq] = Append(@, staged)]
                     ELSE With(@, seq, <<staged>>)]

\* the inner loop of load_index over one file, read through io
RECURSIVE ReplayFile(_, _, _, _, _)
ReplayFile(st, recs, fid, offset, io) ==
    LET r == DataFileRead(recs, offset, io) IN
    IF st.res # "ok" THEN st
    ELSE IF r.err = "ReadDataFileEOF" THEN [st EXCEPT !.offset = offset]
    ELSE IF r.err # "" THEN [st EXCEPT !.res = r.err]
    ELSE ReplayFile(ReplayRecord(st, r.record, LogRecordPos(fid, offset, r.size)),
                    recs, fid, offset + r.size, io)

\* the outer loop of load_index over the sorted file ids
RECURSIVE ReplayFiles(_, _, _, _, _, _)
ReplayFiles(st, data, file_ids, i, non_merge_fid, io) ==
    IF i > Len(file_ids) \/ st.res # "ok" THEN st
    ELSE IF file_ids[i] < non_merge_fid
    THEN ReplayFiles(st, data, file_ids, i + 1, non_merge_fid, io)
    ELSE LET s1 == ReplayFile(st, data[file_ids[i]], file_ids[i], 0, io)
             s2 == IF i = Len(file_ids) /\ s1.res = "ok"
                   THEN [s1 EXCEPT !.active_file.write_off = s1.offset] ELSE s1
         IN  ReplayFiles(s2, data, file_ids, i + 1, non_merge_fid, io)

\* Engine::load_index
load_index(dp, st, file_ids, io) ==
    IF file_ids = <<>> THEN st
    ELSE IF MERGE_FINISHED_FILE_NAME \in DOMAIN dp.side
    THEN LET fin == MarkerRead(dp.side[MERGE_FINISHED_FILE_NAME]) IN
         IF fin.err # "" THEN [st EXCEPT !.res = fin.err]
         ELSE ReplayFiles(st, dp.data, file_ids, 1, ParseNumber(fin.record.value), io)
    ELSE ReplayFiles(st, dp.data, file_ids, 1, 0, io)

\* Engine::load_seq_no: (exists, seq_no); a seq-no file that cannot be read
\* panics
load_seq_no(dp) ==
    IF SEQ_NO_FILE_NAME \notin DOMAIN dp.side
    THEN [res |-> "ok", exists |-> FALSE, seq_no |-> 0]
    ELSE LET r == MarkerRead(dp.side[SEQ_NO_FILE_NAME]) IN
         IF r.err # "" THEN [res |-> "panic", exists |-> TRUE, seq_no |-> 0]
         ELSE [res |-> "ok", exists |-> TRUE, seq_no |-> ParseNumber(r.record.value)]

\* the start of the body of load_index: the engine as open constructs it
NewEngine(dp, opt, bptree, initial, file_ids, io) ==
    LET n == Len(file_ids) IN
    [res |-> "ok",
     active_file |-> [file_id |-> IF n = 0 THEN 0 ELSE file_ids[n],
                      write_off |-> 0, io |-> io, bytes_write |-> 0],
     older_files |-> {file_ids[i] : i \in 1..(n - 1)},
     index |-> IF opt.index_type = "BPlusTree" THEN bptree ELSE <<>>,
     seq_no |-> 1, reclaim_size |-> 0,
     seq_file_exists |-> FALSE, is_initial |-> initial,
     txn_batch |-> <<>>, offset |-> 0, applied |-> {},
     dir |-> IF n = 0 THEN [dp EXCEPT !.data = Created(@, 0)] ELSE dp]

\* open: the keydir is rebuilt unless it is the B+-tree, and reset_io_type
LoadEngine(dp, opt, st, file_ids, io) ==
    IF opt.index_type = "BPlusTree" THEN st
    ELSE [load_index(dp, [st EXCEPT !.index = load_index_from_hint_file(dp, @)],
                     file_ids, io)
             EXCEPT !.active_file.io = "FileIO"]

\* open: the sequence number and the write offset, restored for BTree only
RestoreSeqNo(opt, st, seq) ==
    IF opt.index_type = "BTree" /\ st.res = "ok"
    THEN [st EXCEPT !.res = seq.res,
                    !.seq_file_exists = seq.exists,
                    !.seq_no = seq.seq_no,
                    !.dir.side = IF seq.res = "ok"
                                 THEN Without(@, {SEQ_NO_FILE_NAME}) ELSE @,
                    !.active_file.write_off =
                        FileSize(st.dir.data[st.active_file.file_id])]
    ELSE st

OpenFiles(dp, opt, bptree, initial, file_ids, io) ==
    RestoreSeqNo(opt,
                 LoadEngine(dp, opt, NewEngine(dp, opt, bptree, initial, file_ids, io),
                            file_ids, io),
                 load_seq_no(dp))

\* Engine::open after load_merge_files, on the data directory dp with the
\* options opt; bptree is the keydir found in the B+-tree file
OpenEngine(dp, opt, bptree, initial) ==
    OpenFiles(dp, opt, bptree, initial, Sorted(DOMAIN dp.data),
              IF DOMAIN dp.data # {} /\ opt.mmap_at_startup THEN "MMapIO" ELSE "FileIO")

(***************************************************************************)
(* Observer state.  last_op is the call that returned last (res "running"  *)
(* while a multi-step call is in flight).  hist keeps what the properties  *)
(* compare an engine against: how the previous run of the engine ended and *)
(* what it served then, the keys deleted and not put again, and the view   *)
(* at the start of the last merge.                                         *)
(***************************************************************************)
Op(op, key, value, res) ==
    [op |-> op, key |-> key, value |-> value, res |-> res, info |-> <<>>]
OpInfo(op, res, info) ==
    [op |-> op, key |-> <<>>, value |-> <<>>, res |-> res, info |-> info]

NoBatch == [staged |-> <<>>, positions |-> <<>>, applied |-> {}]
NoMerge == [phase |-> "none", view |-> NoView,
            recover |-> [res |-> "none", view |-> NoView]]
NoPrev == [stop |-> "none", swap |-> FALSE, merging |-> FALSE, batch |-> NoBatch,
           pure |-> FALSE, raced |-> FALSE, view |-> NoView, data |-> {},
           seq_no |-> 0]

HistInit ==
    [pure |-> TRUE, raced |-> FALSE, deleted |-> {}, merge |-> NoMerge,
     prev |-> NoPrev, opens |-> 0]

\* what close followed by open serves on the directories dp and mp
Served(e) ==
    IF e.res # "ok" THEN [res |-> e.res, view |-> NoView]
    ELSE [res |-> "ok", view |-> EngineView(e.dir.data, e)]
Swapped(lm, opt, bptree) ==
    IF lm.res # "ok" THEN [res |-> lm.res, view |-> NoView]
    ELSE Served(OpenEngine(lm.dir, opt, bptree, FALSE))
Reopened(dp, mp, opt, bptree) == Swapped(load_merge_files(dp, mp), opt, bptree)

\* a step of put, delete or commit
HistWrite == [hist EXCEPT !.merge = NoMerge,
                          !.raced = @ \/ merge_pc.op # "none"]
HistPut(k) == [HistWrite EXCEPT !.deleted = @ \ {k}]
HistDelete(k) == [HistWrite EXCEPT !.deleted = @ \cup {k}]
HistCommit(staged) ==
    [HistWrite EXCEPT !.deleted = @ \ {k \in DOMAIN staged :
                                          staged[k].rec_type = "NOAMAL"}]
\* a call that returns an error
HistFailed == [hist EXCEPT !.pure = FALSE]

\* the batch of the commit in flight, as the crash leaves it
CrashBatch ==
    IF commit_pc.op = "none" THEN NoBatch
    ELSE [staged |-> pending_writes, positions |-> commit_pc.positions,
          applied |-> IF commit_pc.op = "apply"
                      THEN {commit_pc.order[j] : j \in 1..(commit_pc.i - 1)}
                      ELSE {}]

\* the process dies
HistCrashed ==
    [hist EXCEPT !.pure = FALSE, !.raced = FALSE, !.deleted = {},
                 !.merge = IF @.phase = "none" THEN NoMerge
                           ELSE [@ EXCEPT !.phase = "crashed"],
                 !.prev = [stop |-> "crash",
                           swap |-> status = "opening",
                           merging |-> merge_pc.op \in {"scan", "marker", "write"},
                           batch |-> CrashBatch,
                           pure |-> FALSE, raced |-> FALSE, view |-> NoView,
                           data |-> DOMAIN dir_path.data,
                           seq_no |-> seq_no]]

\* the engine is dropped; ok is FALSE when close panics
HistClosed(ok) ==
    [hist EXCEPT !.pure = @ /\ ok, !.raced = FALSE,
                 !.deleted = IF ok THEN @ ELSE {},
                 !.merge = IF @.phase = "done" /\ ok
                           THEN [@ EXCEPT !.phase = "closed"] ELSE NoMerge,
                 !.prev = [stop |-> IF ok THEN "close" ELSE "crash",
                           swap |-> FALSE, merging |-> FALSE, batch |-> NoBatch,
                           pure |-> hist.pure /\ ok, raced |-> hist.raced /\ ok,
                           view |-> IF ok THEN View ELSE NoView,
                           data |-> DOMAIN dir_path.data,
                           seq_no |-> seq_no]]

\* open is called, and it returns
HistOpening == [hist EXCEPT !.opens = @ + 1]
HistOpened(h) == h
HistOpenFailed(h) == [h EXCEPT !.pure = FALSE, !.deleted = {}]

(***************************************************************************)
(* The state machine.  An API call is one action or, where another thread  *)
(* or a crash can come between its steps, a chain of actions driven by a   *)
(* program counter (put_pc, commit_pc, merge_pc, open_pc).  The variable   *)
(* caller is the workload of the run and never changes: with threads FALSE *)
(* one caller issues the calls one after the other, with threads TRUE a    *)
(* writer, a committer and a merger run side by side; keys and values are  *)
(* what the calls are made with; records and opens bound the run.          *)
(***************************************************************************)
NoPc == [op |-> "none"]
Idle == put_pc.op = "none" /\ commit_pc.op = "none" /\ merge_pc.op = "none"
MayStart == status = "open" /\ (caller.threads \/ Idle)
\* the caller of a write batch makes no other call between its first staged
\* operation and its commit
NoBatchOpen == caller.threads \/ pending_writes = <<>>
Room(n) == CountRecords(dir_path.data, DOMAIN dir_path.data) + n <= caller.records

IndexTypes == {"BTree", "SkipList", "BPlusTree"}
\* Options.data_file_merge_ratio as a fraction <<numerator, denominator>>
MergeRatios == {<<0, 1>>}

\* the variables of an engine that is not running; the B+-tree keydir is a
\* file and stays
StoppedEngine ==
    [active_file |-> [file_id |-> 0, write_off |-> 0, io |-> "FileIO",
                      bytes_write |-> 0],
     older_files |-> {},
     index |-> IF options.index_type = "BPlusTree" THEN index ELSE <<>>,
     seq_no |-> 0, reclaim_size |-> 0, seq_file_exists |-> FALSE,
     is_initial |-> FALSE]

SetEngine(e) ==
    /\ active_file' = e.active_file
    /\ older_files' = e.older_files
    /\ index' = e.index
    /\ seq_no' = e.seq_no
    /\ reclaim_size' = e.reclaim_size
    /\ seq_file_exists' = e.seq_file_exists
    /\ is_initial' = e.is_initial

\* the process ends: every call in flight and the write batch are gone
Stop ==
    /\ status' = "closed"
    /\ SetEngine(StoppedEngine)
    /\ pending_writes' = <<>>
    /\ put_pc' = NoPc /\ commit_pc' = NoPc /\ merge_pc' = NoPc /\ open_pc' = NoPc
    /\ iter' = NoIter

\* no engine, no call in flight
SetInit ==
    /\ active_file = [file_id |-> 0, write_off |-> 0, io |-> "FileIO",
                      bytes_write |-> 0]
    /\ older_files = {}
    /\ index = <<>>
    /\ seq_no = 0
    /\ reclaim_size = 0
    /\ seq_file_exists = FALSE
    /\ is_initial = FALSE
    /\ pending_writes = <<>>
    /\ put_pc = NoPc /\ commit_pc = NoPc /\ merge_pc = NoPc /\ open_pc = NoPc
    /\ iter = NoIter
    /\ last_op = Op("none", <<>>, <<>>, "ok")
    /\ hist = HistInit

\* the engine has never run
Fresh ==
    /\ dir_path = EmptyDir
    /\ merge_path = EmptyDir
    /\ status = "closed"
    /\ SetInit

AllOptions == [index_type : IndexTypes, mmap_at_startup : BOOLEAN,
               data_file_merge_ratio : MergeRatios,
               sync_writes : {FALSE}, bytes_per_sync : {0}]

\* one caller, one key, every operation of the engine
Init ==
    /\ options \in AllOptions
    /\ caller = [threads |-> FALSE, keys |-> {<<97>>}, values |-> {<<>>},
                 records |-> MaxRecords, opens |-> MaxOpens,
                 max_batch_num |-> MaxBatchNum]
    /\ Fresh

(***************************************************************************)
(* Engine::open                                                            *)
(***************************************************************************)
\* an open that keeps the lock of the directory when it fails
OpenKeepingLock(e, mp, h) ==
    /\ merge_path' = mp
    /\ open_pc' = NoPc
    /\ UNCHANGED <<options, caller, iter, pending_writes, put_pc, commit_pc, merge_pc>>
    /\ status' = IF e.res = "ok" THEN "open" ELSE "opening"
    /\ dir_path' = e.dir
    /\ SetEngine(IF e.res = "ok" THEN e ELSE StoppedEngine)
    /\ last_op' = IF e.res = "ok" THEN OpInfo("open", "ok", e.applied)
                  ELSE Op("open", <<>>, <<>>, e.res)
    /\ hist' = IF e.res = "ok" THEN HistOpened(h) ELSE HistOpenFailed(h)

\* the second half of open: load_data_files to the end.  When the replay
\* returns an error the engine that open has built is dropped, and its drop
\* handler runs close: the seq-no record is written, the active file is
\* synced, which MMapIO does not implement, and the lock is released
OpenReturns(e, mp, h) ==
    /\ merge_path' = mp
    /\ open_pc' = NoPc
    /\ UNCHANGED <<options, caller, iter, pending_writes, put_pc, commit_pc, merge_pc>>
    /\ IF e.res = "ok"
       THEN /\ status' = "open"
            /\ dir_path' = e.dir
            /\ SetEngine(e)
            /\ last_op' = OpInfo("open", "ok", e.applied)
            /\ hist' = HistOpened(h)
       ELSE /\ status' = "closed"
            /\ dir_path' =
                 IF e.res = "panic" THEN e.dir
                 ELSE [e.dir EXCEPT
                         !.side = [Created(@, SEQ_NO_FILE_NAME) EXCEPT
                                     ![SEQ_NO_FILE_NAME] =
                                         Append(@, LogRecord(SEQ_NO_KEY,
                                                             NumberToString(e.seq_no),
                                                             "NOAMAL"))],
                         !.unsynced = IF e.active_file.io = "MMapIO" THEN @
                                      ELSE Without(@, {e.active_file.file_id})]
            /\ SetEngine(StoppedEngine)
            /\ last_op' = Op("open", <<>>, <<>>,
                             IF e.active_file.io = "MMapIO" THEN "panic"
                             ELSE e.res)
            /\ hist' = HistOpenFailed(h)

OpenFinishOn(dp, mp, initial, h) ==
    OpenReturns(OpenEngine(dp, options, index, initial), mp, h)

\* open up to the point where load_merge_files starts to swap; the entries
\* of the directory are counted after the lock file has been created in it
OpenBegin ==
    /\ status = "closed"
    /\ hist.opens < caller.opens
    /\ LET dp == [dir_path EXCEPT !.exists = TRUE,
                                  !.side = Created(@, FILE_LOCK_NAME)]
           initial == \/ ~dir_path.exists
                      \/ Cardinality(DOMAIN dp.data) + Cardinality(DOMAIN dp.side) = 0
           fin == MarkerRead(merge_path.side[MERGE_FINISHED_FILE_NAME])
       IN  IF merge_path.exists /\ MergeFinished(merge_path)
           THEN IF fin.err # ""
                THEN /\ dir_path' = dp
                     /\ last_op' = Op("open", <<>>, <<>>, fin.err)
                     /\ hist' = HistOpenFailed(HistOpening)
                     /\ UNCHANGED <<options, merge_path, status, active_file,
                                    older_files, index, seq_no, reclaim_size,
                                    pending_writes, put_pc, commit_pc, merge_pc,
                                    open_pc, caller, iter, is_initial, seq_file_exists>>
                ELSE /\ dir_path' = dp
                     /\ status' = "opening"
                     /\ open_pc' = [op |-> "remove", fid |-> 0,
                                    non_merge_id |-> ParseNumber(fin.record.value),
                                    data |-> MergeDataNames(merge_path),
                                    side |-> MergeSideNames(merge_path),
                                    initial |-> initial]
                     /\ UNCHANGED <<options, merge_path, active_file, older_files,
                                    index, seq_no, reclaim_size, pending_writes,
                                    put_pc, commit_pc, merge_pc, caller, iter,
                                    is_initial, seq_file_exists>>
                     /\ last_op' = Op("open", <<>>, <<>>, "running")
                     /\ hist' = HistOpening
           ELSE OpenFinishOn(dp, load_merge_files(dp, merge_path).merge, initial,
                             HistOpening)

\* load_merge_files: remove_file of one old data file; a missing file panics
SwapRemove ==
    /\ status = "opening" /\ open_pc.op = "remove"
    /\ IF open_pc.fid \in DOMAIN dir_path.data
       THEN /\ dir_path' = RemoveDataFile(dir_path, open_pc.fid)
            /\ open_pc' = [open_pc EXCEPT
                             !.fid = @ + 1,
                             !.op = IF open_pc.fid + 1 = open_pc.non_merge_id
                                    THEN "rename" ELSE "remove"]
            /\ UNCHANGED <<options, merge_path, status, active_file, older_files,
                           index, seq_no, reclaim_size, pending_writes, put_pc,
                           commit_pc, merge_pc, caller, iter, is_initial,
                           seq_file_exists, last_op, hist>>
       ELSE /\ Stop
            /\ last_op' = Op("open", <<>>, <<>>, "panic")
            /\ hist' = HistOpenFailed(hist)
            /\ UNCHANGED <<options, dir_path, merge_path, caller>>

\* load_merge_files: rename of one entry of the merge directory
SwapRename ==
    /\ status = "opening" /\ open_pc.op = "rename"
    /\ \/ \E f \in open_pc.data :
            /\ dir_path' = RenameData(dir_path, merge_path, f)
            /\ merge_path' = [merge_path EXCEPT !.data = Without(@, {f})]
            /\ open_pc' = [open_pc EXCEPT !.data = @ \ {f}]
       \/ \E n \in open_pc.side :
            /\ dir_path' = RenameSide(dir_path, merge_path, n)
            /\ merge_path' = [merge_path EXCEPT !.side = Without(@, {n})]
            /\ open_pc' = [open_pc EXCEPT !.side = @ \ {n}]
    /\ UNCHANGED <<options, status, active_file, older_files, index, seq_no,
                   reclaim_size, pending_writes, put_pc, commit_pc, merge_pc,
                   caller, iter, is_initial, seq_file_exists, last_op, hist>>

\* load_merge_files: remove_dir_all of the merge directory, then the rest of
\* open
OpenFinish ==
    /\ status = "opening" /\ open_pc.op = "rename"
    /\ open_pc.data = {} /\ open_pc.side = {}
    /\ OpenFinishOn(dir_path, EmptyDir, open_pc.initial, hist)

\* open of the same directory while the lock is held: open took it before
\* load_merge_files, and only close or the end of the process releases it
OpenLocked ==
    /\ status \in {"open", "opening"}
    /\ last_op' = Op("open_locked", <<>>, <<>>, "DatabaseIsUsing")
    /\ UNCHANGED <<options, dir_path, merge_path, status, active_file,
                   older_files, index, seq_no, reclaim_size, pending_writes,
                   put_pc, commit_pc, merge_pc, open_pc, caller, iter, is_initial,
                   seq_file_exists, hist>>

\* the process dies (kill, panic of another thread, power): what is on disk
\* stays as it is
Crash ==
    /\ status \in {"open", "opening"}
    /\ Stop
    /\ last_op' = Op("crash", <<>>, <<>>, "ok")
    /\ hist' = HistCrashed
    /\ UNCHANGED <<options, dir_path, merge_path, caller>>

\* Engine::close, called by the drop of the engine
Close ==
    /\ status = "open" /\ Idle /\ NoBatchOpen
    /\ SEQ_NO_FILE_NAME \in DOMAIN dir_path.side
           => Len(dir_path.side[SEQ_NO_FILE_NAME]) < MaxCloses
    /\ LET record == LogRecord(SEQ_NO_KEY, NumberToString(seq_no), "NOAMAL")
       IN  dir_path' = [dir_path EXCEPT
                          !.side = [Created(@, SEQ_NO_FILE_NAME) EXCEPT
                                       ![SEQ_NO_FILE_NAME] = Append(@, record)],
                          !.unsynced = IF active_file.io = "MMapIO" THEN @
                                       ELSE Without(@, {active_file.file_id})]
    /\ Stop
    /\ last_op' = Op("close", <<>>, <<>>,
                     IF active_file.io = "MMapIO" THEN "panic" ELSE "ok")
    /\ hist' = HistClosed(active_file.io # "MMapIO")
    /\ UNCHANGED <<options, merge_path, caller>>

(***************************************************************************)
(* Engine::put and Engine::delete                                          *)
(***************************************************************************)
\* a call that panics takes the process down; nothing reaches the disk
Panic(op, key, value) ==
    /\ Stop
    /\ last_op' = Op(op, key, value, "panic")
    /\ hist' = HistCrashed
    /\ UNCHANGED <<options, dir_path, merge_path, caller>>

\* a call returns res at its first check: nothing but the result is new
Returns(op, key, value, res) ==
    /\ last_op' = Op(op, key, value, res)
    /\ UNCHANGED <<options, dir_path, merge_path, status, active_file,
                   older_files, index, seq_no, reclaim_size, pending_writes,
                   put_pc, commit_pc, merge_pc, open_pc, caller, iter, is_initial,
                   seq_file_exists, hist>>

\* Engine::get
GetCall ==
    /\ MayStart /\ NoBatchOpen
    /\ \E key \in caller.keys : Returns("get", key, Get(key).value, Get(key).err)

\* the engine after append_log_record of rec; MMapIO implements neither
\* write nor sync
Appended(rec) == append_log_record(options, dir_path, active_file, older_files, rec)
CannotWrite == active_file.io = "MMapIO"

SetAppended(r) ==
    /\ dir_path' = [dir_path EXCEPT !.data = r.data, !.unsynced = r.unsynced]
    /\ active_file' = r.active_file
    /\ older_files' = r.older_files

\* a put that appends whatever the key is
PutWithoutKeyCheck ==
    /\ MayStart /\ NoBatchOpen /\ put_pc.op = "none" /\ Room(1)
    /\ \E key \in caller.keys, value \in caller.values :
         IF CannotWrite THEN Panic("put", key, value)
         ELSE LET rec == LogRecord(log_record_key_with_seq(key, NON_TXN_SEQ_NO),
                                   value, "NOAMAL")
                  r == Appended(rec)
              IN  /\ SetAppended(r)
                  /\ put_pc' = [op |-> "put", key |-> key, value |-> value,
                                pos |-> r.pos]
                  /\ last_op' = Op("put", key, value, "running")
                  /\ hist' = HistWrite
                  /\ UNCHANGED <<options, merge_path, status, index, seq_no,
                                 reclaim_size, pending_writes, commit_pc, merge_pc,
                                 open_pc, caller, iter, is_initial, seq_file_exists>>

\* put up to the return of append_log_record
PutAppend ==
    /\ MayStart /\ NoBatchOpen /\ put_pc.op = "none" /\ Room(1)
    /\ \E key \in caller.keys, value \in caller.values :
         IF key = <<>> THEN Returns("put", key, value, "KeyIsEmpty")
         ELSE IF CannotWrite THEN Panic("put", key, value)
         ELSE LET rec == LogRecord(log_record_key_with_seq(key, NON_TXN_SEQ_NO),
                                   value, "NOAMAL")
                  r == Appended(rec)
              IN  /\ SetAppended(r)
                  /\ put_pc' = [op |-> "put", key |-> key, value |-> value,
                                pos |-> r.pos]
                  /\ last_op' = Op("put", key, value, "running")
                  /\ hist' = HistWrite
                  /\ UNCHANGED <<options, merge_path, status, index, seq_no,
                                 reclaim_size, pending_writes, commit_pc, merge_pc,
                                 open_pc, caller, iter, is_initial, seq_file_exists>>

\* put: the index update and the return
PutIndex ==
    /\ status = "open" /\ put_pc.op = "put"
    /\ LET st == update_index([index |-> index, reclaim_size |-> reclaim_size],
                              put_pc.key, "NOAMAL", put_pc.pos)
       IN  /\ index' = st.index
           /\ reclaim_size' = st.reclaim_size
    /\ put_pc' = NoPc
    /\ last_op' = Op("put", put_pc.key, put_pc.value, "ok")
    /\ hist' = HistPut(put_pc.key)
    /\ UNCHANGED <<options, dir_path, merge_path, status, active_file,
                   older_files, seq_no, pending_writes, commit_pc, merge_pc,
                   open_pc, caller, iter, is_initial, seq_file_exists>>

\* a delete that appends its tombstone whether or not the keydir holds the
\* key
DeleteWithoutLookup ==
    /\ MayStart /\ NoBatchOpen /\ put_pc.op = "none" /\ Room(1)
    /\ \E key \in caller.keys :
         IF CannotWrite THEN Panic("delete", key, <<>>)
         ELSE LET rec == LogRecord(log_record_key_with_seq(key, NON_TXN_SEQ_NO),
                                   <<>>, "DELETED")
                  r == Appended(rec)
              IN  /\ SetAppended(r)
                  /\ reclaim_size' = reclaim_size + r.pos.size
                  /\ put_pc' = [op |-> "delete", key |-> key, value |-> <<>>,
                                pos |-> r.pos]
                  /\ last_op' = Op("delete", key, <<>>, "running")
                  /\ hist' = HistWrite
                  /\ UNCHANGED <<options, merge_path, status, index, seq_no,
                                 pending_writes, commit_pc, merge_pc, open_pc,
                                 caller, iter, is_initial, seq_file_exists>>

\* delete up to the return of append_log_record; an empty key and a key
\* that is not in the keydir return at once
DeleteAppend ==
    /\ MayStart /\ NoBatchOpen /\ put_pc.op = "none" /\ Room(1)
    /\ \E key \in caller.keys :
         IF key = <<>> THEN Returns("delete", key, <<>>, "ok")
         ELSE IF key \notin DOMAIN index
         THEN /\ last_op' = Op("delete", key, <<>>, "ok")
              /\ hist' = [hist EXCEPT !.deleted = @ \cup {key}]
              /\ UNCHANGED <<options, dir_path, merge_path, status, active_file,
                             older_files, index, seq_no, reclaim_size,
                             pending_writes, put_pc, commit_pc, merge_pc, open_pc,
                             caller, iter, is_initial, seq_file_exists>>
         ELSE IF CannotWrite THEN Panic("delete", key, <<>>)
         ELSE LET rec == LogRecord(log_record_key_with_seq(key, NON_TXN_SEQ_NO),
                                   <<>>, "DELETED")
                  r == Appended(rec)
              IN  /\ SetAppended(r)
                  /\ reclaim_size' = reclaim_size + r.pos.size
                  /\ put_pc' = [op |-> "delete", key |-> key, value |-> <<>>,
                                pos |-> r.pos]
                  /\ last_op' = Op("delete", key, <<>>, "running")
                  /\ hist' = HistWrite
                  /\ UNCHANGED <<options, merge_path, status, index, seq_no,
                                 pending_writes, commit_pc, merge_pc, open_pc,
                                 caller, iter, is_initial, seq_file_exists>>

\* delete: the index update and the return
DeleteIndex ==
    /\ status = "open" /\ put_pc.op = "delete"
    /\ index' = IndexDelete(index, put_pc.key)
    /\ reclaim_size' = IF put_pc.key \in DOMAIN index
                       THEN reclaim_size + index[put_pc.key].size
                       ELSE reclaim_size
    /\ put_pc' = NoPc
    /\ last_op' = Op("delete", put_pc.key, <<>>, "ok")
    /\ hist' = HistDelete(put_pc.key)
    /\ UNCHANGED <<options, dir_path, merge_path, status, active_file,
                   older_files, seq_no, pending_writes, commit_pc, merge_pc,
                   open_pc, caller, iter, is_initial, seq_file_exists>>

\* put killed inside the write of append_log_record: a prefix of the
\* encoded record is in the active file
PutCrash ==
    /\ MayStart /\ NoBatchOpen /\ put_pc.op = "none" /\ Room(1)
    /\ ~CannotWrite
    /\ \E key \in caller.keys, value \in caller.values :
         LET rec == LogRecord(log_record_key_with_seq(key, NON_TXN_SEQ_NO),
                              value, "NOAMAL")
             r == Appended(rec)
             fid == r.active_file.file_id
             synced == IF fid = active_file.file_id THEN dir_path.unsynced
                       ELSE Without(dir_path.unsynced, {active_file.file_id})
         IN  \E w \in 1..(encoded_length(rec) - 1) :
                dir_path' = [dir_path EXCEPT
                               !.data = [r.data EXCEPT
                                           ![fid][Len(r.data[fid])].written = w],
                               !.unsynced =
                                   With(synced, fid,
                                        w + IF fid \in DOMAIN synced
                                            THEN synced[fid] ELSE 0)]
    /\ Stop
    /\ last_op' = Op("crash", <<>>, <<>>, "ok")
    /\ hist' = [HistCrashed EXCEPT !.prev.stop = "torn"]
    /\ UNCHANGED <<options, merge_path, caller>>

(***************************************************************************)
(* WriteBatch (batch.rs)                                                   *)
(***************************************************************************)
\* Engine::new_write_batch succeeds
CanUseWriteBatch ==
    ~(options.index_type = "BPlusTree" /\ ~seq_file_exists /\ ~is_initial)

\* the orders in which a HashMap with the keys of s may iterate
Orders(s) == {o \in [1..Cardinality(s) -> s] : \A k \in s : \E j \in DOMAIN o : o[j] = k}

\* new_write_batch refused
NewWriteBatchFails ==
    /\ MayStart /\ commit_pc.op = "none" /\ ~CanUseWriteBatch
    /\ last_op' = Op("new_write_batch", <<>>, <<>>, "UnableToUseWriteBatch")
    /\ hist' = HistFailed
    /\ UNCHANGED <<options, dir_path, merge_path, status, active_file,
                   older_files, index, seq_no, reclaim_size, pending_writes,
                   put_pc, commit_pc, merge_pc, open_pc, caller, iter, is_initial,
                   seq_file_exists>>

\* WriteBatch::put
BatchPut ==
    /\ MayStart /\ commit_pc.op = "none" /\ CanUseWriteBatch
    /\ \E key \in caller.keys, value \in caller.values :
         IF key = <<>> THEN Returns("batch_put", key, value, "KeyIsEmpty")
         ELSE /\ pending_writes' = With(Without(pending_writes, {key}), key,
                                        [rec_type |-> "NOAMAL", value |-> value])
              /\ last_op' = Op("batch_put", key, value, "ok")
              /\ UNCHANGED <<options, dir_path, merge_path, status, active_file,
                             older_files, index, seq_no, reclaim_size, put_pc,
                             commit_pc, merge_pc, open_pc, caller, iter, is_initial,
                             seq_file_exists, hist>>

\* WriteBatch::delete
BatchDelete ==
    /\ MayStart /\ commit_pc.op = "none" /\ CanUseWriteBatch
    /\ \E key \in caller.keys :
         LET pending == IF key \notin DOMAIN index
                        THEN Without(pending_writes, {key}) ELSE pending_writes
         IN  IF key = <<>> THEN Returns("batch_delete", key, <<>>, "KeyIsEmpty")
             ELSE /\ pending_writes' = With(Without(pending, {key}), key,
                                            [rec_type |-> "DELETED", value |-> <<>>])
                  /\ last_op' = Op("batch_delete", key, <<>>, "ok")
                  /\ UNCHANGED <<options, dir_path, merge_path, status,
                                 active_file, older_files, index, seq_no,
                                 reclaim_size, put_pc, commit_pc, merge_pc, open_pc,
                                 caller, iter, is_initial, seq_file_exists, hist>>

\* a commit that takes the lock and a sequence number whatever the number
\* of staged operations
CommitWithoutLengthChecks ==
    /\ MayStart /\ commit_pc.op = "none" /\ CanUseWriteBatch
    /\ Room(Cardinality(DOMAIN pending_writes) + 1)
    /\ \E order \in Orders(DOMAIN pending_writes) :
         commit_pc' = [op |-> IF pending_writes = <<>> THEN "finish" ELSE "append",
                       seq_no |-> seq_no, order |-> order,
                       i |-> 1, positions |-> <<>>]
    /\ seq_no' = seq_no + 1
    /\ last_op' = Op("commit", <<>>, <<>>, "running")
    /\ hist' = HistWrite
    /\ UNCHANGED <<options, dir_path, merge_path, status, active_file,
                   older_files, index, reclaim_size, pending_writes, put_pc,
                   merge_pc, open_pc, caller, iter, is_initial, seq_file_exists>>

\* commit: the length checks, the lock, the sequence number
CommitBegin ==
    /\ MayStart /\ commit_pc.op = "none" /\ CanUseWriteBatch
    /\ IF pending_writes = <<>> THEN Returns("commit", <<>>, <<>>, "ok")
       ELSE IF Cardinality(DOMAIN pending_writes) > caller.max_batch_num
       THEN Returns("commit", <<>>, <<>>, "ExceedMaxBatchNum")
       ELSE /\ Room(Cardinality(DOMAIN pending_writes) + 1)
            /\ \E order \in Orders(DOMAIN pending_writes) :
                 commit_pc' = [op |-> "append", seq_no |-> seq_no, order |-> order,
                               i |-> 1, positions |-> <<>>]
            /\ seq_no' = seq_no + 1
            /\ last_op' = Op("commit", <<>>, <<>>, "running")
            /\ hist' = HistWrite
            /\ UNCHANGED <<options, dir_path, merge_path, status, active_file,
                           older_files, index, reclaim_size, pending_writes,
                           put_pc, merge_pc, open_pc, caller, iter, is_initial,
                           seq_file_exists>>

\* commit: one round of the loop that appends the staged records
CommitAppend ==
    /\ status = "open" /\ commit_pc.op = "append"
    /\ IF CannotWrite THEN Panic("commit", <<>>, <<>>)
       ELSE LET key == commit_pc.order[commit_pc.i]
                item == pending_writes[key]
                rec == LogRecord(log_record_key_with_seq(key, commit_pc.seq_no),
                                 item.value, item.rec_type)
                r == Appended(rec)
            IN  /\ SetAppended(r)
                /\ commit_pc' = [commit_pc EXCEPT
                                   !.positions = With(@, key, r.pos),
                                   !.i = @ + 1,
                                   !.op = IF commit_pc.i = Len(commit_pc.order)
                                          THEN "finish" ELSE "append"]
                /\ hist' = HistWrite
                /\ UNCHANGED <<options, merge_path, status, index, seq_no,
                               reclaim_size, pending_writes, put_pc, merge_pc,
                               open_pc, caller, iter, is_initial, seq_file_exists,
                               last_op>>

\* commit: the terminator record
CommitFinish ==
    /\ status = "open" /\ commit_pc.op = "finish"
    /\ IF CannotWrite THEN Panic("commit", <<>>, <<>>)
       ELSE LET rec == LogRecord(log_record_key_with_seq(TXN_FIN_KEY, commit_pc.seq_no),
                                 <<>>, "TXNFINISHED")
                r == Appended(rec)
            IN  /\ SetAppended(r)
                /\ commit_pc' = [commit_pc EXCEPT !.op = "apply", !.i = 1]
                /\ hist' = HistWrite
                /\ UNCHANGED <<options, merge_path, status, index, seq_no,
                               reclaim_size, pending_writes, put_pc, merge_pc,
                               open_pc, caller, iter, is_initial, seq_file_exists,
                               last_op>>

\* a commit that returns with its staged operations still in the batch
CommitKeepingBatch ==
    /\ status = "open" /\ commit_pc.op = "apply"
    /\ LET key == commit_pc.order[commit_pc.i]
           st == update_index([index |-> index, reclaim_size |-> reclaim_size],
                              key, pending_writes[key].rec_type,
                              commit_pc.positions[key])
           last == commit_pc.i = Len(commit_pc.order)
       IN  /\ index' = st.index
           /\ reclaim_size' = st.reclaim_size
           /\ commit_pc' = IF last THEN NoPc ELSE [commit_pc EXCEPT !.i = @ + 1]
           /\ last_op' = IF last THEN OpInfo("commit", "ok", pending_writes)
                         ELSE last_op
           /\ hist' = IF last THEN HistCommit(pending_writes) ELSE HistWrite
    /\ UNCHANGED <<options, dir_path, merge_path, status, active_file,
                   older_files, seq_no, put_pc, merge_pc, open_pc, caller, iter,
                   is_initial, seq_file_exists, pending_writes>>

\* commit: one round of the loop that updates the keydir; the last round
\* clears the batch and returns
CommitApply ==
    /\ status = "open" /\ commit_pc.op = "apply"
    /\ LET key == commit_pc.order[commit_pc.i]
           st == update_index([index |-> index, reclaim_size |-> reclaim_size],
                              key, pending_writes[key].rec_type,
                              commit_pc.positions[key])
           last == commit_pc.i = Len(commit_pc.order)
       IN  /\ index' = st.index
           /\ reclaim_size' = st.reclaim_size
           /\ commit_pc' = IF last THEN NoPc ELSE [commit_pc EXCEPT !.i = @ + 1]
           /\ pending_writes' = IF last THEN <<>> ELSE pending_writes
           /\ last_op' = IF last THEN OpInfo("commit", "ok", pending_writes)
                         ELSE last_op
           /\ hist' = IF last THEN HistCommit(pending_writes) ELSE HistWrite
    /\ UNCHANGED <<options, dir_path, merge_path, status, active_file,
                   older_files, seq_no, put_pc, merge_pc, open_pc, caller, iter,
                   is_initial, seq_file_exists>>

(***************************************************************************)
(* Engine::merge (merge.rs)                                                *)
(***************************************************************************)
\* util/file.rs dir_disk_size: the bytes of the files of the directory
RECURSIVE SumSizes(_, _)
SumSizes(files, names) ==
    IF names = {} THEN 0
    ELSE LET n == CHOOSE x \in names : TRUE
         IN  FileSize(files[n]) + SumSizes(files, names \ {n})

dir_disk_size(dp) == SumSizes(dp.data, DOMAIN dp.data) + SumSizes(dp.side, DOMAIN dp.side)

is_empty_engine == active_file.write_off = 0 /\ older_files = {}

\* reclaim_size / total_size < data_file_merge_ratio
MergeRatioUnreached(total) ==
    reclaim_size * options.data_file_merge_ratio[2]
        < options.data_file_merge_ratio[1] * total

\* the position in the merge files after the end-of-file reads: the next
\* record to look at, or i past the last file
RECURSIVE SkipEOF(_, _, _, _)
SkipEOF(data, files, i, offset) ==
    IF i > Len(files) THEN [i |-> i, offset |-> 0]
    ELSE IF DataFileRead(data[files[i]], offset, "FileIO").err = "ReadDataFileEOF"
    THEN SkipEOF(data, files, i + 1, 0)
    ELSE [i |-> i, offset |-> offset]

\* a merge that rotates the active file before it returns without merging
MergeReturnsRotated(res) ==
    /\ last_op' = Op("merge", <<>>, <<>>, res)
    /\ hist' = IF res = "ok" THEN hist ELSE HistFailed
    /\ dir_path' = [dir_path EXCEPT !.data = Created(@, active_file.file_id + 1)]
    /\ older_files' = older_files \cup {active_file.file_id}
    /\ active_file' = [active_file EXCEPT !.file_id = @ + 1, !.write_off = 0]
    /\ UNCHANGED <<options, merge_path, status, index, seq_no, reclaim_size,
                   pending_writes, put_pc, commit_pc, merge_pc, open_pc, caller, iter,
                   is_initial, seq_file_exists>>

\* merge returns without merging
MergeReturns(res) ==
    /\ last_op' = Op("merge", <<>>, <<>>, res)
    /\ hist' = IF res = "ok" THEN hist ELSE HistFailed
    /\ UNCHANGED <<options, dir_path, merge_path, status, active_file,
                   older_files, index, seq_no, reclaim_size, pending_writes,
                   put_pc, commit_pc, merge_pc, open_pc, caller, iter, is_initial,
                   seq_file_exists>>

\* merge up to the first record: the checks, the fresh merge directory,
\* get_merge_files (the rotation of the active file), the merge engine and
\* the hint file.  available is fs2::available_space("/"); the observer keeps
\* it with the size the merge needs, total_size - reclaim_size.
MergeBegin ==
    /\ MayStart /\ NoBatchOpen /\ merge_pc.op = "none"
    /\ active_file.file_id < MaxFileId
    /\ LET total == dir_disk_size(dir_path) IN
       IF is_empty_engine THEN MergeReturns("ok")
       ELSE IF MergeRatioUnreached(total) THEN MergeReturns("MergeRatioUnreached")
       ELSE IF total < reclaim_size
       THEN \/ Panic("merge", <<>>, <<>>)
            \/ MergeReturns("MergeNoEnoughSpace")
       ELSE \E available \in {total - reclaim_size, total - reclaim_size + 1} :
            IF total - reclaim_size >= available
            THEN /\ last_op' = OpInfo("merge", "MergeNoEnoughSpace",
                                      <<available, total - reclaim_size>>)
                 /\ hist' = HistFailed
                 /\ UNCHANGED <<options, dir_path, merge_path, status, active_file,
                                older_files, index, seq_no, reclaim_size,
                                pending_writes, put_pc, commit_pc, merge_pc,
                                open_pc, caller, iter, is_initial, seq_file_exists>>
            ELSE IF CannotWrite THEN Panic("merge", <<>>, <<>>)
            ELSE LET current_fid == active_file.file_id
                     merge_files == Sorted(older_files \cup {current_fid})
                     data == Created(dir_path.data, current_fid + 1)
                     start == SkipEOF(data, merge_files, 1, 0)
                 IN  /\ dir_path' = [dir_path EXCEPT
                                        !.data = data,
                                        !.unsynced = Without(@, {current_fid})]
                     /\ older_files' = older_files \cup {current_fid}
                     /\ active_file' = [file_id |-> current_fid + 1,
                                        write_off |-> 0, io |-> "FileIO",
                                        bytes_write |-> active_file.bytes_write]
                     /\ merge_path' = [exists |-> TRUE,
                                       data |-> (0 :> <<>>),
                                       side |-> (FILE_LOCK_NAME :> <<>>)
                                                 @@ (HINT_FILE_NAME :> <<>>),
                                       unsynced |-> <<>>]
                     /\ merge_pc' = [op |-> IF start.i > Len(merge_files)
                                            THEN "marker" ELSE "scan",
                                     files |-> merge_files, i |-> start.i,
                                     offset |-> start.offset,
                                     active_file |-> [file_id |-> 0, write_off |-> 0,
                                                      io |-> "FileIO",
                                                      bytes_write |-> 0]]
                     /\ last_op' = OpInfo("merge", "running",
                                          <<available, total - reclaim_size>>)
                     /\ hist' = [hist EXCEPT
                                   !.pure = FALSE,
                                   !.merge = [phase |-> "running", view |-> View,
                                              recover |-> Reopened(dir_path, merge_path,
                                                                   options, index)]]
                     /\ UNCHANGED <<options, status, index, seq_no, reclaim_size,
                                    pending_writes, put_pc, commit_pc, open_pc,
                                    caller, iter, is_initial, seq_file_exists>>

\* a merge that does not look at merging_lock: it clears the merge
\* directory and rotates the active file under the merge that runs
MergeWithoutTryLock ==
    /\ MayStart /\ caller.threads /\ merge_pc.op # "none"
    /\ active_file.file_id < MaxFileId
    /\ dir_path' = [dir_path EXCEPT
                       !.data = Created(@, active_file.file_id + 1),
                       !.unsynced = Without(@, {active_file.file_id})]
    /\ older_files' = older_files \cup {active_file.file_id}
    /\ active_file' = [file_id |-> active_file.file_id + 1, write_off |-> 0,
                       io |-> "FileIO", bytes_write |-> active_file.bytes_write]
    /\ merge_path' = [exists |-> TRUE, data |-> (0 :> <<>>),
                      side |-> (FILE_LOCK_NAME :> <<>>) @@ (HINT_FILE_NAME :> <<>>),
                      unsynced |-> <<>>]
    /\ last_op' = Op("merge", <<>>, <<>>, "ok")
    /\ UNCHANGED <<options, status, index, seq_no, reclaim_size, pending_writes,
                   put_pc, commit_pc, merge_pc, open_pc, caller, iter, is_initial,
                   seq_file_exists, hist>>

\* merge called on another thread while a merge holds merging_lock
MergeBusy ==
    /\ MayStart /\ caller.threads /\ merge_pc.op # "none"
    /\ IF is_empty_engine THEN MergeReturns("ok")
       ELSE MergeReturns("MergeInProcess")

\* merge: one record of a merge file; a record the keydir points at is
\* rewritten into the merge directory and gets a hint record
MergeScan ==
    /\ status = "open" /\ merge_pc.op = "scan"
    /\ LET fid == merge_pc.files[merge_pc.i]
           r == DataFileRead(dir_path.data[fid], merge_pc.offset, "FileIO")
           real_key == parse_log_record_key(r.record.key).key
           live == /\ real_key \in DOMAIN index
                   /\ index[real_key].file_id = fid
                   /\ index[real_key].offset = merge_pc.offset
           rec == LogRecord(log_record_key_with_seq(real_key, NON_TXN_SEQ_NO),
                            r.record.value, r.record.rec_type)
           a == append_log_record([sync_writes |-> FALSE, bytes_per_sync |-> 0],
                                  merge_path, merge_pc.active_file, {}, rec)
           hint == LogRecord(real_key, EncodePos(a.pos), "NOAMAL")
           after == SkipEOF(dir_path.data, merge_pc.files, merge_pc.i,
                            merge_pc.offset + r.size)
           done == after.i > Len(merge_pc.files)
       IN  IF r.err # ""
           THEN /\ merge_pc' = NoPc
                /\ last_op' = Op("merge", <<>>, <<>>, r.err)
                /\ hist' = [HistFailed EXCEPT !.merge = NoMerge]
                /\ UNCHANGED merge_path
           ELSE /\ merge_path' = IF live
                                 THEN [merge_path EXCEPT
                                         !.data = a.data,
                                         !.unsynced = a.unsynced,
                                         !.side[HINT_FILE_NAME] = Append(@, hint)]
                                 ELSE merge_path
                /\ merge_pc' = [merge_pc EXCEPT
                                  !.op = IF done THEN "marker" ELSE "scan",
                                  !.i = after.i, !.offset = after.offset,
                                  !.active_file = IF live THEN a.active_file ELSE @]
                /\ UNCHANGED <<last_op, hist>>
    /\ UNCHANGED <<options, dir_path, status, active_file, older_files, index,
                   seq_no, reclaim_size, pending_writes, put_pc, commit_pc,
                   open_pc, caller, iter, is_initial, seq_file_exists>>

\* merge: the merge engine is synced and new_merge_finished_file creates the
\* marker file
MergeCreateMarker ==
    /\ status = "open" /\ merge_pc.op = "marker"
    /\ merge_path' = [merge_path EXCEPT
                        !.side = Created(@, MERGE_FINISHED_FILE_NAME),
                        !.unsynced = <<>>]
    /\ merge_pc' = [merge_pc EXCEPT !.op = "write"]
    /\ UNCHANGED <<options, dir_path, status, active_file, older_files, index,
                   seq_no, reclaim_size, pending_writes, put_pc, commit_pc,
                   open_pc, caller, iter, is_initial, seq_file_exists, last_op, hist>>

\* a merge whose marker names the last merged file instead of the first
\* file that was not merged
MergeMarksLastMergedFile ==
    /\ status = "open" /\ merge_pc.op = "write"
    /\ LET merge_fin_record ==
               LogRecord(MERGE_FIN_KEY,
                         NumberToString(merge_pc.files[Len(merge_pc.files)]), "NOAMAL")
           seq_record == LogRecord(SEQ_NO_KEY, NumberToString(1), "NOAMAL")
       IN  merge_path' = [merge_path EXCEPT
                            !.side = (SEQ_NO_FILE_NAME :> <<seq_record>>)
                                     @@ [@ EXCEPT ![MERGE_FINISHED_FILE_NAME] =
                                                     Append(@, merge_fin_record)]]
    /\ merge_pc' = NoPc
    /\ last_op' = Op("merge", <<>>, <<>>, "ok")
    /\ hist' = [hist EXCEPT !.merge = IF @.phase = "running"
                                      THEN [@ EXCEPT !.phase = "done"] ELSE NoMerge]
    /\ UNCHANGED <<options, dir_path, status, active_file, older_files, index,
                   seq_no, reclaim_size, pending_writes, put_pc, commit_pc,
                   open_pc, caller, iter, is_initial, seq_file_exists>>

\* merge: the marker record is written and merge returns; the drop of the
\* merge engine closes it, which writes its seq-no file
MergeWriteMarker ==
    /\ status = "open" /\ merge_pc.op = "write"
    /\ LET non_merge_file_id == merge_pc.files[Len(merge_pc.files)] + 1
           merge_fin_record == LogRecord(MERGE_FIN_KEY,
                                         NumberToString(non_merge_file_id), "NOAMAL")
           seq_record == LogRecord(SEQ_NO_KEY, NumberToString(1), "NOAMAL")
       IN  merge_path' = [merge_path EXCEPT
                            !.side = (SEQ_NO_FILE_NAME :> <<seq_record>>)
                                     @@ [@ EXCEPT ![MERGE_FINISHED_FILE_NAME] =
                                                     Append(@, merge_fin_record)]]
    /\ merge_pc' = NoPc
    /\ last_op' = Op("merge", <<>>, <<>>, "ok")
    /\ hist' = [hist EXCEPT !.merge = IF @.phase = "running"
                                      THEN [@ EXCEPT !.phase = "done"] ELSE NoMerge]
    /\ UNCHANGED <<options, dir_path, status, active_file, older_files, index,
                   seq_no, reclaim_size, pending_writes, put_pc, commit_pc,
                   open_pc, caller, iter, is_initial, seq_file_exists>>

Next ==
    \/ OpenBegin \/ SwapRemove \/ SwapRename \/ OpenFinish
    \/ Crash \/ Close
    \/ PutAppend \/ PutIndex \/ DeleteAppend \/ DeleteIndex
    \/ NewWriteBatchFails \/ BatchPut \/ BatchDelete
    \/ CommitBegin \/ CommitAppend \/ CommitFinish \/ CommitApply
    \/ MergeBegin \/ MergeScan \/ MergeCreateMarker \/ MergeWriteMarker

\* one caller
Spec == Init /\ [][Next]_vars

\* a writer, a committer and a merger side by side, files read through FileIO
InitThreads ==
    /\ options \in {o \in AllOptions : ~o.mmap_at_startup}
    /\ caller = [threads |-> TRUE, keys |-> {<<97>>}, values |-> {<<>>},
                 records |-> MaxRecords - 1, opens |-> MaxOpens - 1,
                 max_batch_num |-> MaxBatchNum]
    /\ Fresh

SpecThreads == InitThreads /\ [][Next]_vars

\* put, delete and restart with two keys and two values
InitKV ==
    /\ options \in AllOptions
    /\ caller = [threads |-> FALSE, keys |-> Keys, values |-> Values,
                 records |-> MaxRecords, opens |-> MaxOpens,
                 max_batch_num |-> MaxBatchNum]
    /\ Fresh

NextKV ==
    \/ OpenBegin \/ Crash \/ Close
    \/ PutAppend \/ PutIndex \/ DeleteAppend \/ DeleteIndex

SpecKV == InitKV /\ [][NextKV]_vars

\* the write batch on top of it
InitBatch ==
    /\ options \in AllOptions
    /\ caller = [threads |-> FALSE, keys |-> Keys, values |-> Values,
                 records |-> MaxRecords, opens |-> MaxOpens - 1,
                 max_batch_num |-> MaxBatchNum]
    /\ Fresh

NextBatch ==
    \/ NextKV
    \/ NewWriteBatchFails \/ BatchPut \/ BatchDelete
    \/ CommitBegin \/ CommitAppend \/ CommitFinish \/ CommitApply

SpecBatch == InitBatch /\ [][NextBatch]_vars

\* the calls of one caller who also passes the empty key
InitCalls ==
    /\ options \in AllOptions
    /\ caller = [threads |-> FALSE, keys |-> {<<>>, <<97>>}, values |-> Values,
                 records |-> MaxRecords, opens |-> MaxOpens - 1,
                 max_batch_num |-> MaxBatchNum]
    /\ Fresh

SpecCalls == InitCalls /\ [][NextBatch \/ GetCall]_vars

\* callers on several threads who write one key, outside and inside batches
InitRace ==
    /\ options \in {o \in AllOptions : ~o.mmap_at_startup}
    /\ caller = [threads |-> TRUE, keys |-> {<<97>>}, values |-> Values,
                 records |-> MaxRecords, opens |-> MaxOpens - 1,
                 max_batch_num |-> MaxBatchNum]
    /\ Fresh

SpecRace == InitRace /\ [][NextBatch]_vars

\* put, delete and merge from several threads, in the first run of an engine
InitMerge ==
    /\ options \in {o \in AllOptions : ~o.mmap_at_startup}
    /\ caller = [threads |-> TRUE, keys |-> {<<97>>}, values |-> {<<>>},
                 records |-> MaxRecords - 1, opens |-> MaxOpens - 2,
                 max_batch_num |-> MaxBatchNum]
    /\ Fresh

NextMerge ==
    \/ OpenBegin \/ Crash \/ Close
    \/ PutAppend \/ PutIndex \/ DeleteAppend \/ DeleteIndex
    \/ MergeBegin \/ MergeScan \/ MergeCreateMarker \/ MergeWriteMarker
    \/ MergeBusy

SpecMerge == InitMerge /\ [][NextMerge]_vars

\* batches that may hold more operations than max_batch_num allows
InitCommit ==
    /\ options \in {o \in AllOptions : ~o.mmap_at_startup}
    /\ caller = [threads |-> FALSE, keys |-> Keys, values |-> {<<>>},
                 records |-> MaxRecords, opens |-> MaxOpens - 1,
                 max_batch_num |-> MaxBatchNum - 1]
    /\ Fresh

SpecCommit == InitCommit /\ [][NextBatch]_vars

\* every operation of the engine, and opens of the directory by others
SpecLock == Init /\ [][Next \/ OpenLocked]_vars

\* put and delete of one key with every option, and writes cut short by a
\* crash
InitTorn ==
    /\ options \in AllOptions
    /\ caller = [threads |-> FALSE, keys |-> {<<97>>}, values |-> {<<>>},
                 records |-> MaxRecords, opens |-> MaxOpens,
                 max_batch_num |-> MaxBatchNum]
    /\ Fresh

SpecTorn == InitTorn /\ [][NextKV \/ PutCrash \/ OpenLocked]_vars

\* put, delete, merge and the startup merge swap of one caller
InitFiles ==
    /\ options \in AllOptions
    /\ caller = [threads |-> FALSE, keys |-> {<<97>>}, values |-> {<<>>},
                 records |-> MaxRecords, opens |-> MaxOpens - 1,
                 max_batch_num |-> MaxBatchNum]
    /\ Fresh

SpecFiles ==
    InitFiles /\ [][\/ NextKV
                    \/ SwapRemove \/ SwapRename \/ OpenFinish
                    \/ MergeBegin \/ MergeScan \/ MergeCreateMarker
                    \/ MergeWriteMarker]_vars

\* write batches on a directory that does not exist and on a directory
\* that exists and is empty
InitEmpty ==
    /\ options \in AllOptions
    /\ caller = [threads |-> FALSE, keys |-> {<<97>>}, values |-> {<<>>},
                 records |-> MaxRecords, opens |-> MaxOpens - 1,
                 max_batch_num |-> MaxBatchNum]
    /\ dir_path \in {EmptyDir, NewDir}
    /\ merge_path = EmptyDir
    /\ status = "closed"
    /\ SetInit

SpecEmpty == InitEmpty /\ [][NextBatch]_vars

\* one write batch that is staged and committed more than once in one run
InitStage ==
    /\ options \in {o \in AllOptions : ~o.mmap_at_startup}
    /\ caller = [threads |-> FALSE, keys |-> Keys, values |-> Values,
                 records |-> MaxRecords + 1, opens |-> MaxOpens - 2,
                 max_batch_num |-> MaxBatchNum]
    /\ Fresh

SpecStage ==
    InitStage /\ [][\/ OpenBegin \/ Crash \/ Close
                    \/ BatchPut \/ BatchDelete
                    \/ CommitBegin \/ CommitAppend \/ CommitFinish
                    \/ CommitApply]_vars

\* put, delete and restart under every sync policy
InitSync ==
    /\ options \in [index_type : IndexTypes, mmap_at_startup : {FALSE},
                    data_file_merge_ratio : MergeRatios,
                    sync_writes : BOOLEAN, bytes_per_sync : {0, BytesPerSync}]
    /\ caller = [threads |-> FALSE, keys |-> {<<97>>}, values |-> {<<>>},
                 records |-> MaxRecords, opens |-> MaxOpens - 1,
                 max_batch_num |-> MaxBatchNum]
    /\ Fresh

SpecSync == InitSync /\ [][NextKV]_vars

(***************************************************************************)
(* The Iterator of the engine (iterator.rs).  With the iterator the model  *)
(* keeps what the claims compare it against: created, what a read of every *)
(* entry of the keydir returned when the iterator was made; from, the key  *)
(* of the last seek; seen, the items next() has returned since the cursor  *)
(* was last set; done, next() has returned None since.                     *)
(***************************************************************************)
\* Engine::iter; the caller makes one iterator on an engine
Iter ==
    /\ MayStart /\ NoBatchOpen /\ ~iter.live
    /\ \E opts \in [prefix : Prefixes, reverse : BOOLEAN] :
         iter' = [iterator(index, opts) EXCEPT !.curr_index = 0] @@
                 [live |-> TRUE,
                  created |-> [k \in DOMAIN index |->
                                 get_value_by_position(dir_path.data, active_file,
                                                       older_files, index[k])],
                  from |-> <<>>, seen |-> <<>>, done |-> FALSE]
    /\ last_op' = Op("iter", <<>>, <<>>, "ok")
    /\ UNCHANGED <<options, dir_path, merge_path, status, active_file,
                   older_files, index, seq_no, reclaim_size, pending_writes,
                   put_pc, commit_pc, merge_pc, open_pc, caller, is_initial,
                   seq_file_exists, hist>>

\* Iterator::rewind
IterRewind ==
    /\ MayStart /\ NoBatchOpen /\ iter.live
    /\ iter' = [rewind(iter) EXCEPT !.from = <<>>, !.seen = <<>>, !.done = FALSE]
    /\ last_op' = Op("rewind", <<>>, <<>>, "ok")
    /\ UNCHANGED <<options, dir_path, merge_path, status, active_file,
                   older_files, index, seq_no, reclaim_size, pending_writes,
                   put_pc, commit_pc, merge_pc, open_pc, caller, is_initial,
                   seq_file_exists, hist>>

\* Iterator::seek
IterSeek ==
    /\ MayStart /\ NoBatchOpen /\ iter.live
    /\ \E key \in SeekKeys :
         /\ iter' = [seek(iter, key) EXCEPT !.from = <<key>>, !.seen = <<>>,
                                            !.done = FALSE]
         /\ last_op' = Op("seek", key, <<>>, "ok")
    /\ UNCHANGED <<options, dir_path, merge_path, status, active_file,
                   older_files, index, seq_no, reclaim_size, pending_writes,
                   put_pc, commit_pc, merge_pc, open_pc, caller, is_initial,
                   seq_file_exists, hist>>

\* Iterator::next: the value is read from the data file, and an error of
\* the read is unwrapped
IterNext ==
    /\ MayStart /\ NoBatchOpen /\ iter.live
    /\ LET r == next(iter) IN
       IF r.item = <<>>
       THEN /\ iter' = [r.iter EXCEPT !.done = TRUE]
            /\ last_op' = Op("next", <<>>, <<>>, "None")
            /\ UNCHANGED <<options, dir_path, merge_path, status, active_file,
                           older_files, index, seq_no, reclaim_size,
                           pending_writes, put_pc, commit_pc, merge_pc, open_pc,
                           caller, is_initial, seq_file_exists, hist>>
       ELSE LET key == r.item[1].key
                v == get_value_by_position(dir_path.data, active_file,
                                           older_files, r.item[1].pos)
            IN  IF v.err # "" THEN Panic("next", key, <<>>)
                ELSE /\ iter' = [r.iter EXCEPT
                                   !.seen = Append(@, <<key, v.value>>)]
                     /\ last_op' = Op("next", key, v.value, "ok")
                     /\ UNCHANGED <<options, dir_path, merge_path, status,
                                    active_file, older_files, index, seq_no,
                                    reclaim_size, pending_writes, put_pc,
                                    commit_pc, merge_pc, open_pc, caller,
                                    is_initial, seq_file_exists, hist>>

\* keys of which one is a prefix of another: "a", "ab" and "b"
InitIter ==
    /\ options \in AllOptions
    /\ caller = [threads |-> FALSE, keys |-> {<<97>>, <<97, 98>>, <<98>>},
                 values |-> {<<>>}, records |-> MaxRecords,
                 opens |-> MaxOpens - 2, max_batch_num |-> MaxBatchNum]
    /\ Fresh

SpecIter ==
    InitIter /\ [][\/ OpenBegin \/ PutAppend \/ PutIndex
                   \/ Iter \/ IterRewind \/ IterSeek \/ IterNext]_vars

\* an iterator that is read while the engine is written to and reopened
InitSnap ==
    /\ options \in AllOptions
    /\ caller = [threads |-> FALSE, keys |-> Keys, values |-> Values,
                 records |-> MaxRecords, opens |-> MaxOpens - 1,
                 max_batch_num |-> MaxBatchNum]
    /\ Fresh

SpecSnap ==
    InitSnap /\ [][\/ OpenBegin \/ Close
                   \/ PutAppend \/ PutIndex \/ DeleteAppend \/ DeleteIndex
                   \/ Iter \/ IterNext]_vars

(***************************************************************************)
(* Properties.                                                             *)
(***************************************************************************)
\* the engine is open and no call is in flight
Quiet == status = "open" /\ Idle

\* open has returned
OpenReturned == last_op.op = "open" /\ last_op.res # "running"

\* open has returned, and the engine before it was closed by close
ReopenedAfterClose == OpenReturned /\ hist.prev.stop = "close"

\* C1: in a run of successful puts, deletes, closes and opens only, when
\* put(k, v) has returned and nothing was called since, get(k) returns v.
C1_GetAfterPut ==
    (hist.pure /\ last_op.op = "put" /\ last_op.res = "ok")
        => Get(last_op.key) = Ok(last_op.value)

\* C2: in a run of successful puts, deletes, closes and opens only, every
\* key whose last write was a delete that returned reads as KeyIsNotFound
\* and is not in list_keys(), in the engine that deleted it and in the
\* engines opened after it.
C2_DeletedStaysDeleted ==
    (hist.pure /\ Quiet)
        => \A k \in hist.deleted :
               Get(k) = Err("KeyIsNotFound") /\ k \notin ListKeys

\* C3: after a run of successful puts, deletes and commits and a close, open
\* succeeds and the engine serves the list_keys() and the get results the
\* closed engine served.
C3_RestartEquivalence ==
    (ReopenedAfterClose /\ hist.prev.pure)
        => (last_op.res = "ok" /\ View = hist.prev.view)

\* the staged operations of the batch b that recovery applied: a position
\* handed to update_index, or with the B+-tree (no replay) an update of the
\* keydir file made before the crash
RecoveredOps(b) ==
    IF options.index_type = "BPlusTree" THEN b.applied
    ELSE {k \in DOMAIN b.positions : b.positions[k] \in last_op.info}

\* C4: when the process crashed inside commit and the engine is opened again,
\* recovery has applied all the staged operations of the batch or none.
C4_BatchAllOrNothing ==
    (last_op.op = "open" /\ last_op.res = "ok" /\ hist.prev.batch # NoBatch)
        => RecoveredOps(hist.prev.batch) \in {{}, DOMAIN hist.prev.batch.staged}

\* C5: in a run of successful calls only, when commit has returned and
\* nothing was called since, every staged put reads back its value and every
\* staged delete reads as KeyIsNotFound.
C5_CommittedBatchReadable ==
    (hist.pure /\ last_op.op = "commit" /\ last_op.res = "ok")
        => \A k \in DOMAIN last_op.info :
               Get(k) = IF last_op.info[k].rec_type = "NOAMAL"
                        THEN Ok(last_op.info[k].value)
                        ELSE Err("KeyIsNotFound")

\* the staged puts of the commit in flight that a get of another thread sees
\* in the keydir
VisibleOps ==
    {k \in DOMAIN commit_pc.positions :
         k \in DOMAIN index /\ index[k] = commit_pc.positions[k]}

\* C6: while a commit of staged puts is in flight, a get or list_keys of
\* another thread finds none of them in the keydir or all of them.
C6_NoPartialBatch ==
    (commit_pc.op # "none"
        /\ \A k \in DOMAIN pending_writes : pending_writes[k].rec_type = "NOAMAL")
        => VisibleOps \in {{}, DOMAIN pending_writes}

\* C7: a merge that returned Ok, then close and open: open succeeds and the
\* engine serves what close and open without the merge would have served.
C7_MergeIdempotent ==
    (ReopenedAfterClose /\ hist.merge.phase = "closed"
                    /\ hist.merge.recover.res = "ok")
        => (last_op.res = "ok" /\ View = hist.merge.recover.view)

\* C8: writers ran while a merge ran, all of them returned, the engine was
\* closed: open succeeds and the engine serves what it served before close.
C8_WritersDuringMerge ==
    (ReopenedAfterClose /\ hist.prev.raced)
        => (last_op.res = "ok" /\ View = hist.prev.view)

\* C9: the process crashed inside load_merge_files: the next open succeeds
\* and the engine serves what it served when the merge started.
C9_SwapIsAtomic ==
    (OpenReturned /\ hist.prev.swap /\ hist.merge.phase = "crashed")
        => (last_op.res = "ok" /\ View = hist.merge.view)

\* C10: the process crashed inside merge before the marker was written: the
\* next open succeeds, the merge directory is gone, every data file of the
\* source directory is still there, and the engine serves what it served
\* when the merge started.
C10_UnfinishedMergeDiscarded ==
    (OpenReturned /\ hist.prev.merging /\ hist.merge.phase = "crashed")
        => /\ last_op.res = "ok"
           /\ ~merge_path.exists
           /\ hist.prev.data \subseteq DOMAIN dir_path.data
           /\ View = hist.merge.view

\* the sequence numbers carried by the records of the data files
SeqNosOnDisk(data) ==
    UNION {{parse_log_record_key(data[f][i].key).seq_no : i \in 1..Len(data[f])}
           : f \in DOMAIN data}

\* C11: after every successful open the sequence counter is greater than the
\* sequence number of every record in the data files.
C11_SeqNoAboveDisk ==
    (OpenReturned /\ last_op.res = "ok")
        => \A s \in SeqNosOnDisk(dir_path.data) : seq_no > s

\* C12: when a commit has appended its records and its terminator, its
\* sequence number is at least 1 and no other record of the data files
\* carries it.
C12_CommitSeqNoFresh ==
    (commit_pc.op = "apply")
        => /\ commit_pc.seq_no >= 1
           /\ Cardinality(
                  {p \in UNION {{<<f, i>> : i \in 1..Len(dir_path.data[f])}
                                : f \in DOMAIN dir_path.data} :
                     parse_log_record_key(dir_path.data[p[1]][p[2]].key).seq_no
                         = commit_pc.seq_no})
                  = Len(commit_pc.order) + 1

\* C13: the first open, of a directory it creates, leaves the sequence
\* counter at 1; a commit in flight has raised the counter by exactly 1; an
\* open after a close restores the value the counter had at that close.
C13_SeqNoCounts ==
    /\ (OpenReturned /\ last_op.res = "ok" /\ hist.opens = 1) => seq_no = 1
    /\ (commit_pc.op # "none" /\ ~caller.threads) => seq_no = commit_pc.seq_no + 1
    /\ (ReopenedAfterClose /\ last_op.res = "ok") => seq_no = hist.prev.seq_no

\* C14: a crash cut the last write short: the next open succeeds and serves
\* what an open of the same files without the partial record serves.
C14_TornTailDropped ==
    (OpenReturned /\ hist.prev.stop = "torn")
        => /\ last_op.res = "ok"
           /\ View = Served(OpenEngine(
                         [dir_path EXCEPT !.data =
                            [f \in DOMAIN @ |->
                               SelectSeq(@[f], LAMBDA r : r.written = encoded_length(r))]],
                         options, index, FALSE)).view

\* C15: an open of the directory of a running engine returns
\* DatabaseIsUsing, and the open that follows a close succeeds.
C15_FileLockExclusive ==
    /\ (last_op.op = "open_locked") => last_op.res = "DatabaseIsUsing"
    /\ (status # "closed" /\ last_op.op = "open") => last_op.res # "DatabaseIsUsing"
    /\ ReopenedAfterClose => last_op.res = "ok"

\* what a put (NOAMAL) or a delete (DELETED) of key adds to reclaim_size when
\* its record of size bytes is appended: nothing for a key the keydir does
\* not hold, else the size of the replaced record plus, for a delete, the
\* size of the tombstone
Obsoleted(key, rec_type, size) ==
    IF key \notin DOMAIN index THEN 0
    ELSE index[key].size + (IF rec_type = "DELETED" THEN size ELSE 0)

\* C16: the return of a put adds the size of the replaced record to
\* reclaim_size; a delete adds the size of its tombstone when it appends it
\* and the size of the replaced record when it returns; a delete of an
\* absent key adds nothing; each keydir update of a commit adds what the
\* same put or delete adds outside a batch.
C16_ReclaimAccounting ==
    [][/\ (put_pc.op = "put" /\ put_pc'.op = "none" /\ status' = "open")
            => reclaim_size' = reclaim_size + Obsoleted(put_pc.key, "NOAMAL", 0)
       /\ (put_pc.op = "none" /\ put_pc'.op = "delete")
            => reclaim_size' = reclaim_size + put_pc'.pos.size
       /\ (put_pc.op = "delete" /\ put_pc'.op = "none" /\ status' = "open")
            => reclaim_size' + put_pc.pos.size
                   = reclaim_size + Obsoleted(put_pc.key, "DELETED", put_pc.pos.size)
       /\ (put_pc.op = "none" /\ put_pc'.op = "none" /\ last_op'.op = "delete")
            => reclaim_size' = reclaim_size
       /\ (commit_pc.op = "apply" /\ commit_pc' # commit_pc /\ status' = "open")
            => LET key == commit_pc.order[commit_pc.i]
               IN  reclaim_size' = reclaim_size
                       + Obsoleted(key, pending_writes[key].rec_type,
                                   commit_pc.positions[key].size)
      ]_vars

\* C17: a delete called with the empty key, or with a key the keydir does
\* not hold, returns Ok and leaves the files, the keydir, reclaim_size and
\* the sequence counter as they were.
C17_DeleteNoOp ==
    [][(/\ put_pc.op = "none" /\ last_op'.op = "delete"
        /\ (last_op'.key = <<>> \/ last_op'.key \notin DOMAIN index))
          => /\ last_op'.res = "ok"
             /\ UNCHANGED <<dir_path, merge_path, active_file, older_files,
                            index, reclaim_size, seq_no>>]_vars

\* a delete of the empty key has returned on an engine that holds a key
C17_EmptyDeleteReturned ==
    /\ last_op.op = "delete" /\ last_op.key = <<>> /\ last_op.res = "ok"
    /\ index # <<>>

\* C18: put, get, batch put and batch delete called with the empty key
\* return KeyIsEmpty and leave the files, the keydir and the pending map as
\* they were.
C18_EmptyKeyRejected ==
    [][(/\ put_pc.op = "none" /\ last_op'.key = <<>>
        /\ last_op'.op \in {"put", "get", "batch_put", "batch_delete"})
          => /\ last_op'.res = "KeyIsEmpty"
             /\ UNCHANGED <<dir_path, merge_path, active_file, older_files,
                            index, pending_writes>>]_vars

\* a batch delete of the empty key has returned while the batch holds a
\* staged write
C18_EmptyBatchDeleteReturned ==
    /\ last_op.op = "batch_delete" /\ last_op.key = <<>>
    /\ last_op.res = "KeyIsEmpty"
    /\ pending_writes # <<>>

\* C19: when every call of the concurrent callers has returned, the engine
\* serves what close followed by open serves.
C19_KeydirIsLastWrite ==
    Quiet => View = Reopened(dir_path, merge_path, options, index).view

\* C20: a merge called on a non-empty engine while a merge runs returns
\* MergeInProcess; the active file, the older files, the data directory and
\* the merge directory are as they were.
C20_OneMergeInFlight ==
    [][(/\ merge_pc.op # "none" /\ merge_pc' = merge_pc
        /\ last_op'.op = "merge" /\ last_op' # last_op
        /\ ~is_empty_engine)
          => /\ last_op'.res = "MergeInProcess"
             /\ UNCHANGED <<active_file, older_files, dir_path, merge_path>>]_vars

\* a second merge has returned MergeInProcess while the first one scans
C20_SecondMergeRefused ==
    /\ last_op.op = "merge" /\ last_op.res = "MergeInProcess"
    /\ merge_pc.op = "scan"

\* C21: new_write_batch fails only with the B+-tree keydir, on a directory
\* this open did not create and that held no seq-no file when it was opened.
C21_WriteBatchPrecondition ==
    (last_op.op = "new_write_batch" /\ last_op.res = "UnableToUseWriteBatch")
        => /\ options.index_type = "BPlusTree"
           /\ ~is_initial
           /\ SEQ_NO_FILE_NAME \notin DOMAIN dir_path.side

\* C22: a commit with nothing staged returns Ok, and a commit with more
\* staged operations than max_batch_num returns ExceedMaxBatchNum; neither
\* changes the files, the keydir, the sequence counter or the staged
\* operations.
C22_CommitLengthChecks ==
    [][(/\ commit_pc.op = "none" /\ last_op'.op = "commit"
        /\ \/ pending_writes = <<>>
           \/ Cardinality(DOMAIN pending_writes) > caller.max_batch_num)
          => /\ last_op'.res = IF pending_writes = <<>> THEN "ok"
                               ELSE "ExceedMaxBatchNum"
             /\ UNCHANGED <<dir_path, merge_path, active_file, older_files,
                            index, seq_no, reclaim_size, pending_writes>>]_vars

\* a commit of two staged operations was refused and both are still staged
C22_OversizedBatchRefused ==
    /\ last_op.op = "commit" /\ last_op.res = "ExceedMaxBatchNum"
    /\ Cardinality(DOMAIN pending_writes) = 2

\* C23: when append_log_record has returned to a put or a delete, the
\* position it returned names the active file, ends at the end of that file
\* and has the length of the record, and a read at it returns the record.
C23_AppendPosition ==
    (put_pc.op \in {"put", "delete"})
        => LET pos == put_pc.pos
               rec == LogRecord(log_record_key_with_seq(put_pc.key, NON_TXN_SEQ_NO),
                                put_pc.value,
                                IF put_pc.op = "put" THEN "NOAMAL" ELSE "DELETED")
               r == DataFileRead(dir_path.data[pos.file_id], pos.offset, "FileIO")
           IN  /\ pos.file_id = active_file.file_id
               /\ pos.size = encoded_length(rec)
               /\ pos.offset + pos.size = FileSize(dir_path.data[pos.file_id])
               /\ r.err = "" /\ r.record = rec

\* C24: no data file of the directory is longer than data_file_size (every
\* record the callers append is shorter than data_file_size).
C24_FileSizeBounded ==
    \A fid \in DOMAIN dir_path.data : FileSize(dir_path.data[fid]) <= DataFileSize

\* C25: an open engine has one active file, which exists and whose id is
\* above the id of every older file; while the engine stays open the active
\* file changes only to the file with the next id, the file it leaves joins
\* the older files, and an older file stays an older file with the same
\* bytes.
C25_OneActiveFile ==
    [][/\ status' = "open"
          => /\ active_file'.file_id \in DOMAIN dir_path'.data
             /\ \A fid \in older_files' :
                  /\ fid \in DOMAIN dir_path'.data
                  /\ fid < active_file'.file_id
       /\ (status = "open" /\ status' = "open")
          => /\ \A fid \in older_files :
                  /\ fid \in older_files'
                  /\ dir_path'.data[fid] = dir_path.data[fid]
             /\ active_file'.file_id # active_file.file_id
                  => /\ active_file'.file_id = active_file.file_id + 1
                     /\ older_files' = older_files \cup {active_file.file_id}]_vars

\* a rollover has happened and the engine wrote to the new active file
C25_RolledOver ==
    /\ status = "open" /\ older_files # {}
    /\ active_file.write_off > 0
    /\ last_op.op = "put" /\ last_op.res = "ok"

\* C26: a commit that holds the commit lock and has appended nothing yet
\* carries a sequence number above that of every batch record in the data
\* files, so the batches of the log carry increasing sequence numbers.
C26_BatchSeqNoIncreasing ==
    (commit_pc.op = "append" /\ commit_pc.i = 1)
        => \A f \in DOMAIN dir_path.data : \A i \in 1..Len(dir_path.data[f]) :
             LET s == parse_log_record_key(dir_path.data[f][i].key).seq_no
             IN  s # NON_TXN_SEQ_NO => commit_pc.seq_no > s

\* C27: WriteBatch::delete of a key that is neither in the keydir nor staged
\* in the batch leaves the staged operations as they were.
C27_BatchDeleteOfAbsentKeySkipped ==
    [][(/\ last_op'.op = "batch_delete" /\ last_op'.res = "ok"
        /\ last_op'.key \notin DOMAIN index
        /\ last_op'.key \notin DOMAIN pending_writes)
          => pending_writes' = pending_writes]_vars

\* C28: a staged operation replaces what the batch held for its key; a commit
\* appends one record per staged key, built from the operation the batch
\* holds for it, and then one terminator, all under the sequence number it
\* took; when it returns the batch is empty; the counter never goes down
\* inside a run, so the next commit of the batch takes a larger number.
C28_OneRecordPerStagedKey ==
    [][/\ (last_op'.op = "batch_put" /\ last_op'.res = "ok")
          => /\ DOMAIN pending_writes' = DOMAIN pending_writes \cup {last_op'.key}
             /\ pending_writes'[last_op'.key]
                  = [rec_type |-> "NOAMAL", value |-> last_op'.value]
       /\ (commit_pc.op = "none" /\ commit_pc'.op = "append")
          => /\ commit_pc'.seq_no = seq_no /\ seq_no' = seq_no + 1
             /\ Len(commit_pc'.order) = Cardinality(DOMAIN pending_writes)
             /\ {commit_pc'.order[i] : i \in DOMAIN commit_pc'.order}
                  = DOMAIN pending_writes
       /\ (commit_pc.op \in {"append", "finish"} /\ status' = "open")
          => LET file == dir_path'.data[active_file'.file_id]
                 key == commit_pc.order[commit_pc.i]
             IN  /\ CountRecords(dir_path'.data, DOMAIN dir_path'.data)
                      = CountRecords(dir_path.data, DOMAIN dir_path.data) + 1
                 /\ file[Len(file)]
                      = IF commit_pc.op = "finish"
                        THEN LogRecord(log_record_key_with_seq(TXN_FIN_KEY,
                                                               commit_pc.seq_no),
                                       <<>>, "TXNFINISHED")
                        ELSE LogRecord(log_record_key_with_seq(key, commit_pc.seq_no),
                                       pending_writes[key].value,
                                       pending_writes[key].rec_type)
                 /\ commit_pc'.op = IF commit_pc.op = "finish" THEN "apply"
                                    ELSE IF commit_pc.i < Len(commit_pc.order)
                                    THEN "append" ELSE "finish"
       /\ (commit_pc.op = "apply" /\ status' = "open")
          => /\ dir_path' = dir_path
             /\ commit_pc'.op = "none"
                  => pending_writes' = <<>> /\ last_op'.res = "ok"
       /\ (status = "open" /\ status' = "open") => seq_no' >= seq_no]_vars

\* the second commit of a batch in one run has appended its records and its
\* terminator, under a number above that of the first
C28_SecondCommit ==
    /\ commit_pc.op = "apply" /\ hist.opens = 1
    /\ \E f \in DOMAIN dir_path.data : \E i \in 1..Len(dir_path.data[f]) :
         /\ dir_path.data[f][i].rec_type = "TXNFINISHED"
         /\ parse_log_record_key(dir_path.data[f][i].key).seq_no < commit_pc.seq_no

\* C29: when append_log_record has returned to a put or a delete, only the
\* active file has bytes that no fsync has covered (a rollover synced the
\* file it left); with sync_writes it has none, and with sync_writes off and
\* bytes_per_sync above 0 it has at most bytes_per_sync of them.
C29_SyncPolicy ==
    (put_pc.op \in {"put", "delete"})
        => /\ \A f \in DOMAIN dir_path.unsynced : f = active_file.file_id
           /\ options.sync_writes => dir_path.unsynced = <<>>
           /\ (~options.sync_writes /\ options.bytes_per_sync > 0)
                => \A f \in DOMAIN dir_path.unsynced :
                     dir_path.unsynced[f] <= options.bytes_per_sync

\* C30: when a merge without concurrent writes has rewritten its input files,
\* the data files of the merge directory hold one record for every key whose
\* keydir position lies in an input file and no other record: the record has
\* sequence number 0, is no tombstone and carries the value get returns; the
\* hint file holds one entry for every such key and no other, and the entry
\* points at the rewritten record.
C30_MergeKeepsLiveRecords ==
    (merge_pc.op = "marker" /\ ~caller.threads)
        => LET live == {k \in DOMAIN index :
                          \E j \in DOMAIN merge_pc.files :
                             merge_pc.files[j] = index[k].file_id}
               hints == merge_path.side[HINT_FILE_NAME]
           IN  /\ CountRecords(merge_path.data, DOMAIN merge_path.data)
                    = Cardinality(live)
               /\ Len(hints) = Cardinality(live)
               /\ \A k \in live : \E h \in DOMAIN hints :
                    LET pos == decode_log_record_pos(hints[h].value)
                        r == IF pos.file_id \in DOMAIN merge_path.data
                             THEN DataFileRead(merge_path.data[pos.file_id],
                                               pos.offset, "FileIO")
                             ELSE ReadErr("DataFileIsNotFound")
                    IN  /\ hints[h].key = k
                        /\ r.err = ""
                        /\ r.record.key = log_record_key_with_seq(k, NON_TXN_SEQ_NO)
                        /\ r.record.rec_type = "NOAMAL"
                        /\ get_value_by_position(dir_path.data, active_file,
                                                 older_files, index[k])
                             = Ok(r.record.value)

Wanted(it) ==
    {k \in DOMAIN it.created :
        /\ Len(it.options.prefix) <= Len(k)
        /\ SubSeq(k, 1, Len(it.options.prefix)) = it.options.prefix
        /\ it.from # <<>>
              => cmp(k, it.from[1]) # (IF it.options.reverse THEN "Greater"
                                       ELSE "Less")}

\* C34: the keys next() returns one after the other are strictly ascending
\* in byte-lexicographic order, strictly descending with options.reverse;
\* each has options.prefix as a prefix and, after seek(key), is >= key (<= key
\* when reversed); none of these keys is stepped over, so the first item after
\* a seek is the first such key and the first item after rewind is the first
\* item; and when next() returns None every one of them has been returned.
C34_IterationOrder ==
    iter.live =>
        LET key(i) == iter.seen[i][1]
            order == IF iter.options.reverse THEN "Greater" ELSE "Less"
        IN  /\ \A i, j \in 1..Len(iter.seen) : i < j => cmp(key(i), key(j)) = order
            /\ \A i \in 1..Len(iter.seen) :
                  /\ key(i) \in Wanted(iter)
                  /\ \A k \in Wanted(iter) :
                        cmp(k, key(i)) = order
                            => \E j \in 1..(i - 1) : key(j) = k
            /\ iter.done
                  => Wanted(iter) = {key(i) : i \in 1..Len(iter.seen)}

\* a reversed iterator with the prefix "a" on the keys "a", "ab" and "b"
\* has been sought to "aa" and has run to its end
C34_SoughtReversedWithPrefix ==
    /\ iter.live /\ iter.done /\ iter.options.reverse
    /\ iter.options.prefix = <<97>> /\ iter.from = << <<97, 97>> >>
    /\ Cardinality(DOMAIN iter.created) = 3
    /\ Len(iter.seen) = 1

\* C40: an iterator is a snapshot of the keydir it was made on: next() never
\* fails, every item it returns is a key that was in the keydir when
\* Engine::iter was called, with the value a read of its position returned
\* then, whatever has been put or deleted since, and an iterator that has
\* run to its end has returned every such key.
C40_IteratorSnapshot ==
    /\ last_op.op = "next" => last_op.res # "panic"
    /\ iter.live =>
          /\ \A i \in 1..Len(iter.seen) :
                /\ iter.seen[i][1] \in DOMAIN iter.created
                /\ iter.created[iter.seen[i][1]] = Ok(iter.seen[i][2])
          /\ iter.done
                => Wanted(iter) = {iter.seen[i][1] : i \in 1..Len(iter.seen)}

\* C35: an open that fails after it has taken the lock of the directory
\* leaves no engine behind that holds it: the next open of the directory is
\* not turned away with DatabaseIsUsing.
C35_FailedOpenReleasesLock ==
    [][/\ (last_op'.op = "open" /\ last_op'.res \notin {"ok", "running"})
             => status' = "closed"
       /\ (last_op.op = "open" /\ last_op.res \notin {"ok", "running"})
             => last_op'.res # "DatabaseIsUsing"]_vars

\* the replay of a record cut short has failed an open, and the open after
\* it has got past the lock and failed on the same record
C35_OpenedAgainAfterFailure ==
    /\ last_op.op = "open" /\ last_op.res = "InvalidLogRecordCrc"
    /\ hist.opens = 3
    /\ Len(dir_path.side[SEQ_NO_FILE_NAME]) = 2

\* C36: the engine of the first open of a directory that did not exist, or
\* that existed and held no entry, is initial, and no new_write_batch on it
\* is refused, whatever the keydir.
C36_EmptyDirIsInitial ==
    (status = "open" /\ hist.opens = 1)
        => is_initial /\ last_op.res # "UnableToUseWriteBatch"

\* C37: while an engine that open has returned is running, the data
\* directory holds no seq-no file; when close has returned, the seq-no file
\* holds one record, and its value is the sequence number of the engine
\* that was closed.
C37_SeqNoFileLifecycle ==
    /\ status = "open" => SEQ_NO_FILE_NAME \notin DOMAIN dir_path.side
    /\ (last_op.op = "close" /\ last_op.res = "ok")
          => /\ SEQ_NO_FILE_NAME \in DOMAIN dir_path.side
             /\ Len(dir_path.side[SEQ_NO_FILE_NAME]) = 1
             /\ dir_path.side[SEQ_NO_FILE_NAME][1].value
                   = NumberToString(hist.prev.seq_no)

\* C38: on every state of the data directory that a stopped engine has left,
\* open with mmap_at_startup = true returns what open with mmap_at_startup =
\* false returns, with the same keydir, the same sequence number and the
\* same write offset of the active file.
C38_MmapOpenEquivalent ==
    (status = "closed" /\ dir_path.exists)
        => LET mapped == OpenEngine(dir_path,
                                    [options EXCEPT !.mmap_at_startup = TRUE],
                                    index, FALSE)
               read == OpenEngine(dir_path,
                                  [options EXCEPT !.mmap_at_startup = FALSE],
                                  index, FALSE)
           IN  /\ mapped.res = read.res
               /\ mapped.index = read.index
               /\ mapped.seq_no = read.seq_no
               /\ mapped.active_file.write_off = read.active_file.write_off

\* C39: whenever the engine of a single caller is open and no call is in
\* flight, every entry k -> (file_id, offset, size) of the keydir names the
\* active file or an older file, that file is in the data directory, and
\* the record that starts at the offset is a complete Normal record of
\* encoded length size whose key without the sequence prefix is k; get(k)
\* does not return DataFileIsNotFound.
C39_KeydirValid ==
    Quiet =>
        \A k \in DOMAIN index :
            /\ index[k].file_id \in older_files \cup {active_file.file_id}
            /\ index[k].file_id \in DOMAIN dir_path.data
            /\ LET recs == dir_path.data[index[k].file_id]
                   i == RecordAt(recs, index[k].offset, 1)
               IN  /\ i # 0
                   /\ recs[i].written = encoded_length(recs[i])
                   /\ recs[i].rec_type = "NOAMAL"
                   /\ parse_log_record_key(recs[i].key).key = k
                   /\ encoded_length(recs[i]) = index[k].size
            /\ Get(k).err # "DataFileIsNotFound"
====
